---- MODULE Spec2Model ----
(***************************************************************************)
(* Collage layout solver of signature-photo-alchemy.                       *)
(*                                                                         *)
(* The model follows the search-based calculateGridLayout                  *)
(* (components/collage/layout/calculateGridLayout.ts, second definition),  *)
(* the renderer that consumes it (render/drawImageHelpers.ts) and the      *)
(* side-distribution helpers.  All coordinates are integers: the page      *)
(* size and the padding are integer constants of the program, and every    *)
(* fractional value the code produces is a half-integer that goes through  *)
(* Math.round, modelled by Round2.                                         *)
(***************************************************************************)
EXTENDS Integers, Sequences, FiniteSets, Bags, TLC

(* ------------------------------------------------------------------ *)
(* Program constants                                                   *)
(* ------------------------------------------------------------------ *)
\* Math.round(210 * 96 / 25.4)
CANVAS_WIDTH == 794
\* Math.round(297 * 96 / 25.4)
CANVAS_HEIGHT == 1123
PADDING == 5
\* cap of the side size search: Math.min(maxSideSizeW, maxSideSizeH, 300)
MaxSideCap == 300
\* images.length > 50 raises the renderer's warning toast
ToastThreshold == 50

(* ------------------------------------------------------------------ *)
(* Bounds of the model                                                 *)
(* ------------------------------------------------------------------ *)
\* photo counts 0..MaxCount are tried on every page
MaxCount == 14
\* the large photo count of the degraded scenario
BigCount == 200
\* small pages: widths and heights MinDim..MaxDim
MinDim == 24
MaxDim == 31
\* paddings 0..MaxGap on the small pages
MaxGap == 2
\* side counts 0..MaxSideCount given to the distribution helpers
MaxSideCount == 12

(* ------------------------------------------------------------------ *)
(* Arithmetic of the source language                                   *)
(* ------------------------------------------------------------------ *)
\* Math.round(k / 2) for an integer k: halves round towards +infinity
Round2(k) == (k + 1) \div 2

\* Math.floor(a / b) for b > 0
FloorDiv(a, b) == a \div b

Min2(a, b) == IF a <= b THEN a ELSE b
Max2(a, b) == IF a >= b THEN a ELSE b
\* Math.abs
Abs(n) == IF n < 0 THEN -n ELSE n

Rect(x, y, w, h) == [x |-> x, y |-> y, w |-> w, h |-> h]

VARIABLES
  pc,        \* "idle" before a call, then the name of the operation that ran
  req,       \* the request of the last call
  layout,    \* the GridLayoutResult of the last call
  outcome,   \* "none" | "returned" | "rejected": how the last call ended
  divisions, \* result of the last side-distribution helper call
  drawn,     \* draw calls issued by the renderer, in call order
  toasts,    \* warning toasts raised by the renderer
  bestConfig, \* { main, side, offsetX, offsetY, gap } chosen by the main-fraction search
  hexLayout, \* the HexagonLayout of the last calculateHexagonLayout call
  loop,      \* a search loop run iteration by iteration: its inputs, its loop
             \* variables and the number of iterations it has run
  queue,     \* useImageUploadQueue: the queue state (PreviewImage[]), with every
             \* setQueue updater issued so far applied
  uploadedImageNames, \* names of the images state of useCollageImages, the
             \* hook's uploadedImageNames argument at the next render
  rendered,  \* what the closures of the last render hold: queue and
             \* uploadedImageNames
  storage,   \* file names stored in the session's folder of the bucket
  uploading, \* the uploading ref
  runs,      \* the upload() calls in progress, in call order: the names of
             \* each one's closure and the pending items of its closure's
             \* queue from the one it awaits on
  nextId,    \* number of ids handed out by randomId, plus one
  stale,     \* hook calls and resumptions since the last render
  addedOverLimit, \* whether some addFiles call changed the queue although the
             \* previews, the uploaded images and its files exceeded maxImages
  overridden, \* whether upload() marked some entry "uploaded" that held another
             \* file than the one it had sent
  props,     \* CollageCanvas: the images, mainPhotoId and pattern of the last
             \* render
  loads,     \* the onload callbacks that are registered and have not run, a
             \* bag: the context and the rectangle each callback draws to
  screen,    \* draw calls that show on the component's canvas
  temp,      \* per downloadCanvas call, the draw calls that show on its
             \* temporary canvas
  download,  \* the downloadCanvas calls, in call order: how far each one is,
             \* its format, the draw calls it registered and the content it
             \* serialised
  loading,   \* useCollageImages: the loading state
  inflight,  \* useCollageImages: the calls of uploadImages, clearAllImages and
             \* fetchImages that are at an await, in call order; a fetchImages
             \* is [op |-> "fetchImages"] at its await of the listing and
             \* [op |-> "createSignedUrl", listed |-> names] at the next one
  lastCall,  \* useCollageImages: the uploadImages or clearAllImages call that
             \* last returned or started since the last render, with what it
             \* did to images and loading
  reactDefined \* whether the identifier React, which useImageUploadQueue
             \* uses and does not import, is a global of the build: if it
             \* is not, the render of the collage builder throws at
             \* React.useEffect and no function of the hooks is there to call

\* state written only by the main-fraction search, the hexagon layout and the
\* iteration-level view of the search loops
otherVars == <<bestConfig, hexLayout, loop>>

\* state of the upload queue hook and of the image list it is given
queueVars ==
  <<queue, uploadedImageNames, rendered, storage, uploading, runs, nextId, stale,
    addedOverLimit, overridden>>

\* state of the layout functions and of the renderer
layoutVars == <<pc, req, layout, outcome, divisions, drawn, toasts, otherVars>>

\* state of the canvas component
canvasVars == <<props, loads, screen, temp, download>>

\* state of useCollageImages besides the image names and the bucket, which
\* the upload queue shares (uploadedImageNames, rendered, storage, stale)
imagesVars == <<loading, inflight, lastCall>>

\* what the build decides
buildVars == <<reactDefined>>

vars == <<layoutVars, queueVars, canvasVars, imagesVars, buildVars>>

(* ------------------------------------------------------------------ *)
(* calculateGridLayout, search-based version                           *)
(* ------------------------------------------------------------------ *)
\* the result returned for imagesCount < 1, and the initial bestLayout
ZeroLayout == [main |-> Rect(0, 0, 0, 0), side |-> <<>>]

\* imagesCount === 1: the largest square with a margin of padding, centred
SingleImageLayout(W, H, p) ==
  LET w == W - 2 * p
      h == H - 2 * p
      size == Min2(w, h)
      x == Round2(W - size)
      y == Round2(H - size)
  IN  [main |-> Rect(x, y, size, size), side |-> <<>>]

\* for (i = 0; i < numSide; ++i) nBySide[i % 4]++   (top, bottom, left, right)
nBySide(numSide) ==
  LET cnt(k) == Cardinality({i \in 0..(numSide - 1) : i % 4 = k})
  IN  [top |-> cnt(0), btm |-> cnt(1), lft |-> cnt(2), rgt |-> cnt(3)]

\* Math.min(Math.floor(canvasWidth * 0.5), Math.floor(canvasHeight * 0.5))
minMain(W, H) == Min2(FloorDiv(W, 2), FloorDiv(H, 2))

maxSideSize(W, H, p, nb) ==
  LET nH == nb.lft + nb.rgt
      nV == nb.top + nb.btm
      maxSideSizeW == FloorDiv(W - 2 * p, IF nH = 0 THEN 1 ELSE nH + 1)
      maxSideSizeH == FloorDiv(H - 2 * p, IF nV = 0 THEN 1 ELSE nV + 1)
  IN  Max2(1, Min2(Min2(maxSideSizeW, maxSideSizeH), MaxSideCap))

\* faulty variant: the main size takes the larger of the two free spans
MainSizeMax(W, H, p, nb, s) ==
  LET mW == W - (nb.lft + nb.rgt) * s - (nb.lft + nb.rgt + 2) * p
      mH == H - (nb.top + nb.btm) * s - (nb.top + nb.btm + 2) * p
  IN  Max2(mW, mH)

\* m = Math.min(mW, mH) for side size s
MainSize(W, H, p, nb, s) ==
  LET mW == W - (nb.lft + nb.rgt) * s - (nb.lft + nb.rgt + 2) * p
      mH == H - (nb.top + nb.btm) * s - (nb.top + nb.btm + 2) * p
  IN  Min2(mW, mH)

GridW(p, nb, s, m) == nb.lft * s + m + nb.rgt * s + (nb.lft + nb.rgt + 2) * p
GridH(p, nb, s, m) == nb.top * s + m + nb.btm * s + (nb.top + nb.btm + 2) * p

StartX(W, p, nb, s, m) == Round2(W - GridW(p, nb, s, m))
StartY(H, p, nb, s, m) == Round2(H - GridH(p, nb, s, m))

\* main: { x: Math.round(mainX), y: Math.round(mainY), w: Math.round(m), h: Math.round(m) }
MainRect(p, nb, s, m, startX, startY) ==
  Rect(startX + nb.lft * s + (nb.lft + 1) * p,
       startY + nb.top * s + (nb.top + 1) * p, m, m)

\* faulty variant: the top row without the per-photo offset i * (s + padding)
TopRowNoOffset(p, nb, s, m, startX, startY) ==
  [i \in 1..nb.top |->
     Rect(Round2(2 * (startX + nb.lft * s + (nb.lft + 1) * p)
                 - ((nb.top * (s + p) - p) - m)),
          startY + p, s, s)]

\* top row, left to right; x is a half-integer before Math.round
TopRow(p, nb, s, m, startX, startY) ==
  [i \in 1..nb.top |->
     Rect(Round2(2 * (startX + nb.lft * s + (nb.lft + 1) * p + (i - 1) * (s + p))
                 - ((nb.top * (s + p) - p) - m)),
          startY + p, s, s)]

\* bottom row, left to right
BottomRow(p, nb, s, m, startX, startY) ==
  [i \in 1..nb.btm |->
     Rect(Round2(2 * (startX + nb.lft * s + (nb.lft + 1) * p + (i - 1) * (s + p))
                 - ((nb.btm * (s + p) - p) - m)),
          startY + nb.top * s + m + (nb.top + nb.btm + 1) * p, s, s)]

\* left column, top to bottom
LeftCol(p, nb, s, m, startX, startY) ==
  [i \in 1..nb.lft |->
     Rect(startX + p,
          Round2(2 * (startY + nb.top * s + (nb.top + 1) * p + (i - 1) * (s + p))
                 - ((nb.lft * (s + p) - p) - m)),
          s, s)]

\* faulty variant: right-column cells stretched to share the main photo's height
RightColStretched(p, nb, s, m, startX, startY) ==
  [i \in 1..nb.rgt |->
     Rect(startX + nb.lft * s + m + (nb.lft + 1 + 1) * p,
          Round2(2 * (startY + nb.top * s + (nb.top + 1) * p + (i - 1) * (s + p))
                 - ((nb.rgt * (s + p) - p) - m)),
          s, FloorDiv(m - (nb.rgt - 1) * p, nb.rgt))]

\* right column, top to bottom
RightCol(p, nb, s, m, startX, startY) ==
  [i \in 1..nb.rgt |->
     Rect(startX + nb.lft * s + m + (nb.lft + 1 + 1) * p,
          Round2(2 * (startY + nb.top * s + (nb.top + 1) * p + (i - 1) * (s + p))
                 - ((nb.rgt * (s + p) - p) - m)),
          s, s)]

\* the layout built in one iteration of the search loop
PlaceLayout(W, H, p, nb, s, m) ==
  LET startX == StartX(W, p, nb, s, m)
      startY == StartY(H, p, nb, s, m)
  IN  [main |-> MainRect(p, nb, s, m, startX, startY),
       side |-> TopRow(p, nb, s, m, startX, startY)
                \o BottomRow(p, nb, s, m, startX, startY)
                \o LeftCol(p, nb, s, m, startX, startY)
                \o RightCol(p, nb, s, m, startX, startY)]

\* if (m < minMain && (nLft + nRgt + nTop + nBtm) > 0) continue;
Skipped(W, H, p, nb, s) ==
  /\ MainSize(W, H, p, nb, s) < minMain(W, H)
  /\ (nb.lft + nb.rgt + nb.top + nb.btm) > 0

\* an iteration that is not skipped stores its layout when m * m > maxMainArea;
\* maxMainArea is 0 until a layout is stored, and the loop breaks right after
Stores(W, H, p, nb, s) ==
  /\ ~Skipped(W, H, p, nb, s)
  /\ MainSize(W, H, p, nb, s) * MainSize(W, H, p, nb, s) > 0

\* for (let s = maxSideSize; s >= 1; --s) { ... } return bestLayout;
\* s runs downwards and the loop breaks at the first iteration that stores a
\* layout, so the result is the layout of the largest storing s, and the
\* initial bestLayout when no iteration stores one
SearchLoop(W, H, p, nb, sMax, bestLayout) ==
  LET storing == {s \in 1..sMax : Stores(W, H, p, nb, s)}
  IN  IF storing = {} THEN bestLayout
      ELSE LET s == CHOOSE v \in storing : \A u \in storing : u <= v
           IN  PlaceLayout(W, H, p, nb, s, MainSize(W, H, p, nb, s))

calculateGridLayout(r) ==
  IF r.imagesCount < 1 THEN ZeroLayout
  ELSE IF r.imagesCount = 1
       THEN SingleImageLayout(r.canvasWidth, r.canvasHeight, r.padding)
       ELSE LET nb == nBySide(r.imagesCount - 1)
            IN  SearchLoop(r.canvasWidth, r.canvasHeight, r.padding, nb,
                           maxSideSize(r.canvasWidth, r.canvasHeight, r.padding, nb),
                           ZeroLayout)

(* ------------------------------------------------------------------ *)
(* Side-distribution helpers                                           *)
(* ------------------------------------------------------------------ *)
Bump(cond) == IF cond THEN 1 ELSE 0

Divisions(n, top, bottom, left, right) ==
  [n |-> n, top |-> top, bottom |-> bottom, left |-> left, right |-> right]

\* faulty variant: the second extra photo goes to the left edge instead of the bottom
getDivisionsSwapped(sideCount) ==
  LET base == FloorDiv(sideCount, 4)
      rem  == sideCount % 4
  IN  Divisions(sideCount, base + Bump(rem > 0), base + Bump(rem > 2),
                base + Bump(rem > 1), base)

\* pages/CollageBuilder.tsx
getDivisions(sideCount) ==
  LET base == FloorDiv(sideCount, 4)
      rem  == sideCount % 4
  IN  Divisions(sideCount, base + Bump(rem > 0), base + Bump(rem > 1),
                base + Bump(rem > 2), base)

\* render/drawImagesToCanvas.ts
calculateSidePhotoDistribution(totalSidePhotos) ==
  LET base == FloorDiv(totalSidePhotos, 4)
      remainder == totalSidePhotos % 4
  IN  Divisions(totalSidePhotos, base + Bump(remainder > 0),
                base + Bump(remainder > 1), base + Bump(remainder > 2),
                base + Bump(remainder > 3))

\* one pass of: while (remain > 0) { if (remain > 0) { top++; remain--; } ... }
RECURSIVE DistributeLoop(_, _, _, _, _)
DistributeLoop(top, btm, l, r, remain) ==
  IF remain > 0
  THEN LET top1 == top + 1
           rem1 == remain - 1
           btm2 == IF rem1 > 0 THEN btm + 1 ELSE btm
           rem2 == IF rem1 > 0 THEN rem1 - 1 ELSE rem1
           l3   == IF rem2 > 0 THEN l + 1 ELSE l
           rem3 == IF rem2 > 0 THEN rem2 - 1 ELSE rem2
           r4   == IF rem3 > 0 THEN r + 1 ELSE r
           rem4 == IF rem3 > 0 THEN rem3 - 1 ELSE rem3
       IN  DistributeLoop(top1, btm2, l3, r4, rem4)
  ELSE <<top, btm, l, r>>

\* the legacy helper of the fixed-main calculateGridLayout
tryDistributeSidePhotos(n) ==
  LET base == FloorDiv(n, 4)
      out  == DistributeLoop(base, base, base, base, n - (base + base + base + base))
  IN  Divisions(n, out[1], out[2], out[3], out[4])

(* ------------------------------------------------------------------ *)
(* calculateGridLayout, fixed-main "frame" version with the 15 px clamp *)
(* ------------------------------------------------------------------ *)
\* minimum side size the frame version clamps to
MinFrameSide == 15
\* the clamp applies only when numSide > 20
ClampSideCount == 20

\* floor(n/4) per side, extras to nBySide[i % 4]
FrameCounts(numSide) ==
  LET base   == FloorDiv(numSide, 4)
      remain == numSide - (base + base + base + base)
  IN  [top |-> base + Bump(remain > 0), btm |-> base + Bump(remain > 1),
       lft |-> base + Bump(remain > 2), rgt |-> base + Bump(remain > 3)]

\* Math.floor((space - (n - 1) * padding) / n), 0 for an empty edge
EdgeSize(space, n, p) == IF n > 0 THEN FloorDiv(space - (n - 1) * p, n) ELSE 0

\* the uniform side size before the clamp: the smallest positive edge size,
\* at least 1, and 0 when no edge has a positive size
FrameBaseSize(mainW, mainH, p, nb) ==
  LET sizes == {v \in {EdgeSize(mainW, nb.top, p), EdgeSize(mainW, nb.btm, p),
                       EdgeSize(mainH, nb.lft, p), EdgeSize(mainH, nb.rgt, p)} : v > 0}
      least == CHOOSE v \in sizes : \A u \in sizes : v <= u
  IN  IF sizes # {} THEN Max2(1, least) ELSE 0

\* if (sideSize < 15 && numSide > 20) sideSize = 15
FrameSideSize(mainW, mainH, p, nb) ==
  LET sideSize == FrameBaseSize(mainW, mainH, p, nb)
      numSide == nb.top + nb.btm + nb.lft + nb.rgt
  IN  IF sideSize < MinFrameSide /\ numSide > ClampSideCount
      THEN MinFrameSide
      ELSE sideSize

\* a row of n tiles centred on the main photo's horizontal span, at height y
FrameRow(n, mainX, mainW, sideSize, p, y) ==
  [i \in 1..n |->
     Rect(Round2(2 * mainX + (mainW - (sideSize * n + p * (n - 1)))
                 + 2 * (i - 1) * (sideSize + p)),
          y, sideSize, sideSize)]

\* a column of n tiles centred on the main photo's vertical span, at abscissa x
FrameCol(n, mainY, mainH, sideSize, p, x) ==
  [i \in 1..n |->
     Rect(x,
          Round2(2 * mainY + (mainH - (sideSize * n + p * (n - 1)))
                 + 2 * (i - 1) * (sideSize + p)),
          sideSize, sideSize)]

\* the main photo of the frame version: Math.round(canvasWidth * 0.5) wide,
\* as high but for canvasHeight - 4 * padding, centred with Math.round. The
\* frame version of calculateGridLayout.ts and the one of part_009 have the
\* same lines up to the return for a single photo
FrameMain(W, H, p) ==
  LET mainW == Round2(W)
      mainH == Min2(mainW, H - 4 * p)
  IN  Rect(Round2(W - mainW), Round2(H - mainH), mainW, mainH)

calculateGridLayoutFrame(r) ==
  IF r.imagesCount < 1 THEN ZeroLayout
  ELSE LET W == r.canvasWidth
           H == r.canvasHeight
           p == r.padding
           mainW == FrameMain(W, H, p).w
           mainH == FrameMain(W, H, p).h
           mainX == FrameMain(W, H, p).x
           mainY == FrameMain(W, H, p).y
           numSide == r.imagesCount - 1
           nb == FrameCounts(numSide)
           sideSize == FrameSideSize(mainW, mainH, p, nb)
       IN  IF numSide < 1
           THEN [main |-> Rect(mainX, mainY, mainW, mainH), side |-> <<>>]
           ELSE [main |-> Rect(mainX, mainY, mainW, mainH),
                 side |-> FrameRow(nb.top, mainX, mainW, sideSize, p,
                                   mainY - sideSize - p)
                          \o FrameRow(nb.btm, mainX, mainW, sideSize, p,
                                      mainY + mainH + p)
                          \o FrameCol(nb.lft, mainY, mainH, sideSize, p,
                                      mainX - sideSize - p)
                          \o FrameCol(nb.rgt, mainY, mainH, sideSize, p,
                                      mainX + mainW + p)]

(* ------------------------------------------------------------------ *)
(* drawImagesToCanvas (render/drawImageHelpers.ts), grid pattern       *)
(* ------------------------------------------------------------------ *)
\* the caller's images: image i of the list has id i - 1
Images(r) == [i \in 1..r.imagesCount |-> i - 1]

\* images.findIndex(img => img.id === mainPhotoId), 0-based, -1 when absent
FindMainIndex(images, mainPhotoId) ==
  IF \E i \in 1..Len(images) : images[i] = mainPhotoId
  THEN (CHOOSE i \in 1..Len(images) :
          /\ images[i] = mainPhotoId
          /\ \A j \in 1..(i - 1) : images[j] # mainPhotoId) - 1
  ELSE -1

\* faulty variant: the main photo is not removed from the side list
SideImgsUnfiltered(images, mainPhotoId) == images

\* images.filter(img => img.id !== mainPhotoId)
SideImgs(images, mainPhotoId) ==
  SelectSeq(images, LAMBDA id : id # mainPhotoId)

DrawCall(img, pos) == [img |-> img, x |-> pos.x, y |-> pos.y, w |-> pos.w, h |-> pos.h]

\* for (i = 0; i < sideImgs.length; ++i) { pos = layout.side[i]; if (pos) draw }
\* side[i] is defined exactly for i < side.length, so the loop draws the
\* first min(sideImgs.length, side.length) side photos
DrawSide(sideImgs, side) ==
  [i \in 1..Min2(Len(sideImgs), Len(side)) |-> DrawCall(sideImgs[i], side[i])]

\* the draw calls of one drawImagesToCanvas call: the side photos, then the main
DrawCalls(images, mainPhotoId, lay) ==
  DrawSide(SideImgs(images, mainPhotoId), lay.side)
  \o <<DrawCall(mainPhotoId, lay.main)>>

(* ------------------------------------------------------------------ *)
(* Requests                                                            *)
(* ------------------------------------------------------------------ *)
Request(W, H, p, c, k) ==
  [canvasWidth |-> W, canvasHeight |-> H, padding |-> p,
   imagesCount |-> c, mainPhotoIndex |-> k]

\* the invariant of LayoutRequest
ValidRequest(r) ==
  /\ r.canvasWidth > 0
  /\ r.canvasHeight > 0
  /\ r.padding >= 0
  /\ r.imagesCount >= 1
  /\ 0 <= r.mainPhotoIndex
  /\ r.mainPhotoIndex < r.imagesCount

Counts == (0..MaxCount) \cup {BigCount}

\* the program's page, portrait and landscape, with its padding
A4Requests ==
  {Request(pg[1], pg[2], PADDING, c, k) :
     pg \in {<<CANVAS_WIDTH, CANVAS_HEIGHT>>, <<CANVAS_HEIGHT, CANVAS_WIDTH>>},
     c \in Counts, k \in {0, 1, MaxCount, BigCount - 1}}

\* small pages, every width, height and padding of the bounds
SmallRequests ==
  {Request(W, H, p, c, 0) :
     W \in MinDim..MaxDim, H \in MinDim..MaxDim, p \in 0..MaxGap, c \in Counts}

\* requests that break the invariant of LayoutRequest
InvalidRequests ==
  {r \in {Request(W, H, p, c, k) :
            W \in {0, CANVAS_WIDTH}, H \in {-1, CANVAS_HEIGHT},
            p \in {-1, PADDING}, c \in 0..2, k \in {-1, 0, 1, 2}} :
     ~ValidRequest(r)}

Requests == A4Requests \cup SmallRequests \cup InvalidRequests

ZeroRequest == Request(0, 0, 0, 0, 0)
ZeroDivisions == [n |-> 0, top |-> 0, bottom |-> 0, left |-> 0, right |-> 0]

(* ------------------------------------------------------------------ *)
(* drawImagesToCanvas with a layoutConfig: main-fraction search        *)
(* ------------------------------------------------------------------ *)
\* iterations of for (mainFrac = 0.6; mainFrac >= 0.3; mainFrac -= 0.01): the
\* repeated subtraction of the double 0.01 leaves 0.2999999999999997 after
\* 0.31, which is below 0.3, so the fractions tried are 0.60 down to 0.31
MainFracSteps == 30

\* the smallest power of two that is at least n (n >= 1)
Pow2AtLeast(n) ==
  CHOOSE v \in {2 ^ i : i \in 0..24} : v >= n /\ (v = 1 \/ v \div 2 < n)

\* Math.floor(Math.min(canvasW, canvasH) * mainFrac) in iteration k (k = 0 is
\* 0.6). The double mainFrac of iteration k is
\*   (60 - k) / 100 - (40 + 16 * k) / (100 * 2^54),
\* and its product with minDim is rounded to a double (spacing 2^-53 times
\* the power of two above it) before Math.floor: a product that would be the
\* whole number whole floors to whole - 1 when the shortfall exceeds half
\* that spacing, and to whole otherwise.
MainFracSize(minDim, k) ==
  LET exact == minDim * (60 - k)
      whole == exact \div 100
  IN  IF /\ exact % 100 = 0
         /\ whole >= 1
         /\ minDim * (40 + 16 * k) > 100 * Pow2AtLeast(whole)
      THEN whole - 1
      ELSE whole

\* sTop, sBottom, sLeft, sRight: the cell size one edge would allow
EdgeCell(mainSize, avail, GAP, n) ==
  IF n # 0 THEN FloorDiv(mainSize + avail + GAP * 2 - (n - 1) * GAP, n) ELSE 0

\* [sTop, sBottom, sLeft, sRight].filter(Boolean)
CellCandidates(W, H, GAP, d, mainSize) ==
  LET availW == W - mainSize - GAP * 2
      availH == H - mainSize - GAP * 2
  IN  {EdgeCell(mainSize, availW, GAP, d.top), EdgeCell(mainSize, availW, GAP, d.bottom),
       EdgeCell(mainSize, availH, GAP, d.left), EdgeCell(mainSize, availH, GAP, d.right)}
      \ {0}

SetMin(S) == CHOOSE v \in S : \A u \in S : v <= u
SetMax(S) == CHOOSE v \in S : \A u \in S : v >= u

TotalW(GAP, d, sideCell, mainSize) ==
  GAP + (IF d.left # 0 THEN sideCell * d.left + GAP * d.left ELSE 0) + mainSize
      + (IF d.right # 0 THEN GAP * d.right + sideCell * d.right ELSE 0) + GAP

TotalH(GAP, d, sideCell, mainSize) ==
  GAP + (IF d.top # 0 THEN sideCell * d.top + GAP * d.top ELSE 0) + mainSize
      + (IF d.bottom # 0 THEN GAP * d.bottom + sideCell * d.bottom ELSE 0) + GAP

Config(main, side, offsetX, offsetY, gap) ==
  [main |-> main, side |-> side, offsetX |-> offsetX, offsetY |-> offsetY, gap |-> gap]

ZeroConfig == Config(0, 0, 0, 0, 0)

\* the candidate of iteration k: sizes, extent and the numerator of
\* areaFill = (totalW * totalH) / (canvasW * canvasH)
Candidate(W, H, GAP, d, k) ==
  LET mainSize == MainFracSize(Min2(W, H), k)
      cells    == CellCandidates(W, H, GAP, d, mainSize)
      sideCell == IF cells = {} THEN 0 ELSE SetMin(cells)
      totalW   == TotalW(GAP, d, sideCell, mainSize)
      totalH   == TotalH(GAP, d, sideCell, mainSize)
  IN  [hasCells |-> cells # {}, main |-> mainSize, side |-> sideCell,
       totalW |-> totalW, totalH |-> totalH, fill |-> totalW * totalH]

\* the tests of the if statement other than areaFill > maxAreaFill; areaFill
\* and 0.90 are compared as fractions of the page area
Adequate(W, H, c) ==
  /\ c.hasCells
  /\ c.totalW <= W + 2
  /\ c.totalH <= H + 2
  /\ 10 * c.fill >= 9 * (W * H)
  /\ c.side >= 20
  /\ c.main >= 60

\* faulty variant: every adequate candidate replaces bestConfig
AcceptsAny(W, H, c, maxAreaFill) == Adequate(W, H, c)

\* the whole condition of the if statement
Accepts(W, H, c, maxAreaFill) == Adequate(W, H, c) /\ c.fill > maxAreaFill

RECURSIVE MainFracLoop(_, _, _, _, _, _, _)
\* the for loop from iteration k on, with the running bestConfig and
\* maxAreaFill (as a numerator over the page area)
MainFracLoop(W, H, GAP, d, k, best, maxAreaFill) ==
  IF k >= MainFracSteps THEN best
  ELSE LET c == Candidate(W, H, GAP, d, k)
       IN  IF Accepts(W, H, c, maxAreaFill)
           THEN MainFracLoop(W, H, GAP, d, k + 1,
                  Config(c.main, c.side,
                         FloorDiv(W - c.totalW + 2 * GAP, 2),
                         FloorDiv(H - c.totalH + 2 * GAP, 2), GAP),
                  c.fill)
           ELSE MainFracLoop(W, H, GAP, d, k + 1, best, maxAreaFill)

\* if (bestConfig.main === 0) { ... 50% main, conservative side cell ... }
FallbackConfig(W, H, GAP, d) ==
  LET fallbackMain  == FloorDiv(Min2(W, H), 2)
      most          == SetMax({d.left, d.right, d.top, d.bottom})
      fallbackSides == Max2(30, FloorDiv(W - fallbackMain - GAP * 4,
                                         IF most # 0 THEN most ELSE 1))
  IN  Config(fallbackMain, fallbackSides,
             FloorDiv(W - fallbackMain, 2), FloorDiv(H - fallbackMain, 2), GAP)

\* bestConfig as the drawing routine reads it
SearchConfig(W, H, GAP, d) ==
  LET found == MainFracLoop(W, H, GAP, d, 0, ZeroConfig, 0)
  IN  IF found.main = 0 THEN FallbackConfig(W, H, GAP, d) ELSE found

\* the position of each cell of the drawing routine, in drawing order: top
\* row, bottom row, left column, right column
ConfigCells(d, cfg) ==
  LET step  == cfg.side + cfg.gap
      leftW == IF d.left # 0 THEN step * d.left ELSE 0
      topH  == IF d.top # 0 THEN step * d.top ELSE 0
  IN  [i \in 1..d.top |->
         Rect(cfg.offsetX + leftW + (i - 1) * step, cfg.offsetY, cfg.side, cfg.side)]
      \o [i \in 1..d.bottom |->
         Rect(cfg.offsetX + leftW + (i - 1) * step,
              cfg.offsetY + topH + cfg.main + cfg.gap, cfg.side, cfg.side)]
      \o [i \in 1..d.left |->
         Rect(cfg.offsetX, cfg.offsetY + topH + (i - 1) * step, cfg.side, cfg.side)]
      \o [i \in 1..d.right |->
         Rect(cfg.offsetX + leftW + cfg.main + cfg.gap,
              cfg.offsetY + topH + (i - 1) * step, cfg.side, cfg.side)]

ConfigMain(d, cfg) ==
  Rect(cfg.offsetX + (IF d.left # 0 THEN (cfg.side + cfg.gap) * d.left ELSE 0),
       cfg.offsetY + (IF d.top # 0 THEN (cfg.side + cfg.gap) * d.top ELSE 0),
       cfg.main, cfg.main)

\* if (sideImgs[idx]) drawImgSmartCrop(...) for every cell, then the main photo
ConfigDraws(images, mainPhotoId, d, cfg) ==
  LET sideImgs == SideImgs(images, mainPhotoId)
      cells    == ConfigCells(d, cfg)
      shown    == Min2(Len(sideImgs), Len(cells))
  IN  [i \in 1..shown |-> DrawCall(sideImgs[i], cells[i])]
      \o <<DrawCall(mainPhotoId, ConfigMain(d, cfg))>>

(* ------------------------------------------------------------------ *)
(* calculateGridLayout, binary-search version (main fixed at 60%)      *)
(* ------------------------------------------------------------------ *)
\* basePerSide and extras: top and bottom take the first two extras, left and
\* right stay at basePerSide
BinaryCounts(numSide) ==
  LET basePerSide == FloorDiv(numSide, 4)
      extras      == numSide % 4
  IN  [top |-> basePerSide + (IF extras >= 1 THEN 1 ELSE 0),
       btm |-> basePerSide + (IF extras >= 2 THEN 1 ELSE 0),
       lft |-> basePerSide,
       rgt |-> basePerSide]

\* Math.round(canvasWidth * 0.6): three fifths of a whole number is never
\* half way between two whole numbers
BinaryMainW(W) == FloorDiv(6 * W + 5, 10)

BlockW(p, nb, s, mainW) ==
  (IF nb.lft > 0 THEN nb.lft * s + nb.lft * p ELSE 0) + mainW
    + (IF nb.rgt > 0 THEN nb.rgt * s + nb.rgt * p ELSE 0) + 2 * p

BlockH(p, nb, s, mainH) ==
  (IF nb.top > 0 THEN nb.top * s + nb.top * p ELSE 0) + mainH
    + (IF nb.btm > 0 THEN nb.btm * s + nb.btm * p ELSE 0) + 2 * p

\* low, high and best of computeSideSize
SearchState(low, high, best) == [low |-> low, high |-> high, best |-> best]

\* faulty variant: a size that does not fit keeps high at s
BinaryStepKeepsHigh(W, H, p, nb, mainW, st) ==
  LET s      == FloorDiv(st.low + st.high, 2)
      blockW == BlockW(p, nb, s, mainW)
      blockH == BlockH(p, nb, s, mainW)
  IN  IF blockW > W \/ blockH > H
      THEN SearchState(st.low, s, st.best)
      ELSE IF 10 * (blockW * blockH) >= 9 * (W * H)
           THEN SearchState(s + 1, st.high, s)
           ELSE SearchState(s + 1, st.high, st.best)

\* one iteration of while (low <= high) in computeSideSize; areaFill >= 0.90
\* is compared as a fraction of the page area
BinaryStep(W, H, p, nb, mainW, st) ==
  LET s      == FloorDiv(st.low + st.high, 2)
      blockW == BlockW(p, nb, s, mainW)
      blockH == BlockH(p, nb, s, mainW)
  IN  IF blockW > W \/ blockH > H
      THEN SearchState(st.low, s - 1, st.best)
      ELSE IF 10 * (blockW * blockH) >= 9 * (W * H)
           THEN SearchState(s + 1, st.high, s)
           ELSE SearchState(s + 1, st.high, st.best)

RECURSIVE BinaryLoop(_, _, _, _, _, _)
BinaryLoop(W, H, p, nb, mainW, st) ==
  IF st.low <= st.high
  THEN BinaryLoop(W, H, p, nb, mainW, BinaryStep(W, H, p, nb, mainW, st))
  ELSE st.best

\* let low = 1, high = Math.min(canvasWidth, canvasHeight); let best = 1;
computeSideSize(W, H, p, nb, mainW) ==
  BinaryLoop(W, H, p, nb, mainW, SearchState(1, Min2(W, H), 1))

\* the side rectangles and the main rectangle for the size found
BinaryPlace(W, H, p, nb, mainW, sideSize) ==
  LET mainH   == mainW
      blockW  == (IF nb.lft > 0 THEN nb.lft * sideSize ELSE 0)
                 + (IF nb.rgt > 0 THEN nb.rgt * sideSize ELSE 0)
                 + (IF nb.lft > 0 THEN nb.lft * p ELSE 0)
                 + (IF nb.rgt > 0 THEN nb.rgt * p ELSE 0)
                 + mainW + 2 * p
      blockH  == (IF nb.top > 0 THEN nb.top * sideSize ELSE 0)
                 + (IF nb.btm > 0 THEN nb.btm * sideSize ELSE 0)
                 + (IF nb.top > 0 THEN nb.top * p ELSE 0)
                 + (IF nb.btm > 0 THEN nb.btm * p ELSE 0)
                 + mainH + 2 * p
      offsetX == Round2(W - blockW)
      offsetY == Round2(H - blockH)
      leftW   == IF nb.lft > 0 THEN nb.lft * sideSize + nb.lft * p ELSE 0
      topH    == IF nb.top > 0 THEN nb.top * sideSize + nb.top * p ELSE 0
  IN  [main |-> Rect(offsetX + leftW + p, offsetY + topH + p, mainW, mainH),
       side |->
         [i \in 1..nb.top |->
            Rect(offsetX + leftW + p + (i - 1) * (sideSize + p),
                 offsetY + p, sideSize, sideSize)]
         \o [i \in 1..nb.btm |->
            Rect(offsetX + leftW + p + (i - 1) * (sideSize + p),
                 offsetY + topH + mainH + p + p, sideSize, sideSize)]
         \o [i \in 1..nb.lft |->
            Rect(offsetX + p,
                 offsetY + topH + p + (i - 1) * (sideSize + p), sideSize, sideSize)]
         \o [i \in 1..nb.rgt |->
            Rect(offsetX + leftW + mainW + p + p,
                 offsetY + topH + p + (i - 1) * (sideSize + p), sideSize, sideSize)]]

calculateGridLayoutBinary(r) ==
  IF r.imagesCount < 1 THEN ZeroLayout
  ELSE IF r.imagesCount = 1
       THEN SingleImageLayout(r.canvasWidth, r.canvasHeight, r.padding)
       ELSE LET nb    == BinaryCounts(r.imagesCount - 1)
                mainW == BinaryMainW(r.canvasWidth)
            IN  BinaryPlace(r.canvasWidth, r.canvasHeight, r.padding, nb, mainW,
                            computeSideSize(r.canvasWidth, r.canvasHeight,
                                            r.padding, nb, mainW))

(* ------------------------------------------------------------------ *)
(* calculateHexagonLayout                                              *)
(* ------------------------------------------------------------------ *)
\* faulty variant: the second ring is taken to hold 6 more positions only
calculateHexagonRingsShort(sideCount) ==
  IF sideCount <= 6 THEN [rings |-> 1, totalHexes |-> 6]
  ELSE IF sideCount <= 12 THEN [rings |-> 2, totalHexes |-> 18]
  ELSE IF sideCount <= 36 THEN [rings |-> 3, totalHexes |-> 36]
  ELSE [rings |-> 4, totalHexes |-> 60]

calculateHexagonRings(sideCount) ==
  IF sideCount <= 6 THEN [rings |-> 1, totalHexes |-> 6]
  ELSE IF sideCount <= 18 THEN [rings |-> 2, totalHexes |-> 18]
  ELSE IF sideCount <= 36 THEN [rings |-> 3, totalHexes |-> 36]
  ELSE [rings |-> 4, totalHexes |-> 60]

HexCoord(q, r) == [q |-> q, r |-> r]

\* faulty variant: the second side repeats the direction of the first
DirectionsRepeated ==
  <<[dq |-> -1, dr |-> 0], [dq |-> -1, dr |-> 0], [dq |-> 0, dr |-> 1],
    [dq |-> 1, dr |-> 0], [dq |-> 1, dr |-> -1], [dq |-> 0, dr |-> -1]>>

\* direction vectors for moving around a ring, in the order of the source
Directions ==
  <<[dq |-> -1, dr |-> 0], [dq |-> -1, dr |-> 1], [dq |-> 0, dr |-> 1],
    [dq |-> 1, dr |-> 0], [dq |-> 1, dr |-> -1], [dq |-> 0, dr |-> -1]>>

RECURSIVE WalkRing(_, _, _, _)
\* the two nested loops from position i (i = side * ring + step) on: push
\* { q, r }, then move one step along the current side
WalkRing(ring, i, q, r) ==
  IF i >= 6 * ring THEN <<>>
  ELSE LET dir == Directions[(i \div ring) + 1]
       IN  <<HexCoord(q, r)>> \o WalkRing(ring, i + 1, q + dir.dq, r + dir.dr)

generateRingPositions(ring) ==
  IF ring = 1
  THEN <<HexCoord(1, -1), HexCoord(0, -1), HexCoord(-1, 0),
         HexCoord(-1, 1), HexCoord(0, 1), HexCoord(1, 0)>>
  ELSE WalkRing(ring, 0, ring, -ring)

RECURSIVE RingCoords(_, _)
\* the axial coordinates of rings ring .. rings, ring after ring
RingCoords(ring, rings) ==
  IF ring > rings THEN <<>>
  ELSE generateRingPositions(ring) \o RingCoords(ring + 1, rings)

\* Lengths are kept as exact fractions with one denominator per layout:
\*   HexDen(rings) = 200 * (3 * rings + 1).
\* hexSize = min(W, H) * 0.45 / (rings * 1.5 + 0.5) - padding, as a numerator
HexDen(rings) == 200 * (3 * rings + 1)

HexSizeNum(W, H, p, rings) ==
  20 * (9 * Min2(W, H) - 10 * p * (3 * rings + 1))

HexPosition(x, y, size) == [x |-> x, y |-> y, size |-> size]

\* generateHexPositions: x = q * hexWidth, y = r * vertSpacing + q * vertSpacing / 2
\* with hexWidth = hexSize * 2 and vertSpacing = hexSize * 2 * 0.85 (numerators)
HexOffsetX(c, sizeNum) == c.q * (2 * sizeNum)
HexOffsetY(c, sizeNum) == ((2 * c.r + c.q) * (17 * sizeNum)) \div 20

\* the result as numerators over den; centerX = W / 2, centerY = H / 2
calculateHexagonLayout(r) ==
  IF r.imagesCount < 1
  THEN [den |-> 2,
        centerHexagon |-> HexPosition(r.canvasWidth, r.canvasHeight, 0),
        sideHexagons |-> <<>>]
  ELSE LET sideCount == r.imagesCount - 1
           rings     == calculateHexagonRings(sideCount).rings
           den       == HexDen(rings)
           sizeNum   == HexSizeNum(r.canvasWidth, r.canvasHeight, r.padding, rings)
           centerX   == (den \div 2) * r.canvasWidth
           centerY   == (den \div 2) * r.canvasHeight
           coords    == RingCoords(1, rings)
           taken     == Min2(Len(coords), Max2(sideCount, 0))
       IN  [den |-> den,
            centerHexagon |->
              HexPosition(centerX, centerY,
                          IF rings > 1 THEN (sizeNum * 5) \div 4
                          ELSE (sizeNum * 23) \div 20),
            sideHexagons |->
              [i \in 1..taken |->
                 HexPosition(centerX + HexOffsetX(coords[i], sizeNum),
                             centerY + HexOffsetY(coords[i], sizeNum),
                             sizeNum)]]

ZeroHexLayout == [den |-> 2, centerHexagon |-> HexPosition(0, 0, 0), sideHexagons |-> <<>>]

\* photo counts given to the hexagon layout: 0 .. MaxHexCount and BigCount
MaxHexCount == 62

HexRequests ==
  {Request(pg[1], pg[2], p, c, 0) :
     pg \in {<<CANVAS_WIDTH, CANVAS_HEIGHT>>, <<CANVAS_HEIGHT, CANVAS_WIDTH>>},
     p \in {0, PADDING},
     c \in (0..MaxHexCount) \cup {BigCount}}

(* ------------------------------------------------------------------ *)
(* calculateSpecialGridLayout                                          *)
(* ------------------------------------------------------------------ *)
GRID_SIZE == 7
MAIN_START_ROW == 1
MAIN_START_COL == 1
MAIN_SIZE == 4

\* Lengths of this layout are kept in units of 1 / GRID_SIZE px, in which
\* cellWidth = (canvasWidth - (GRID_SIZE + 1) * padding) / GRID_SIZE is whole.
CellWidthNum(W, p) == W - (GRID_SIZE + 1) * p
CellHeightNum(H, p) == H - (GRID_SIZE + 1) * p

\* the cells of the grid in row-major order, as <<row, col>>
GridCells == [i \in 1..(GRID_SIZE * GRID_SIZE) |->
                <<(i - 1) \div GRID_SIZE, (i - 1) % GRID_SIZE>>]

\* cells occupied by the main photo
InMainBlock(cell) ==
  /\ cell[1] >= MAIN_START_ROW /\ cell[1] < MAIN_START_ROW + MAIN_SIZE
  /\ cell[2] >= MAIN_START_COL /\ cell[2] < MAIN_START_COL + MAIN_SIZE

calculateSpecialGridLayout(W, H, p) ==
  LET cw    == CellWidthNum(W, p)
      ch    == CellHeightNum(H, p)
      pad   == GRID_SIZE * p
      kept  == SelectSeq(GridCells, LAMBDA cell : ~InMainBlock(cell))
  IN  [main |-> Rect(pad + MAIN_START_COL * (cw + pad),
                     pad + MAIN_START_ROW * (ch + pad),
                     cw * MAIN_SIZE + pad * (MAIN_SIZE - 1),
                     ch * MAIN_SIZE + pad * (MAIN_SIZE - 1)),
       side |-> [i \in 1..Len(kept) |->
                   Rect(pad + kept[i][2] * (cw + pad),
                        pad + kept[i][1] * (ch + pad), cw, ch)]]

(* ------------------------------------------------------------------ *)
(* useImageUploadQueue                                                 *)
(* ------------------------------------------------------------------ *)
\* the maxImages argument of the hook (100 by default), scaled down
MaxImages == 1
\* file names are 1..MaxNames
MaxNames == 2
\* randomId hands out at most MaxIds ids
MaxIds == 2
\* at most MaxStale hook calls and resumptions run between two renders
MaxStale == 2

FileNames == 1..MaxNames

PreviewImage(id, name, status) == [id |-> id, name |-> name, status |-> status]

\* an upload() call past its guard, at an await: the pending items of its
\* closure still to send, the first one in flight, and the names of its closure
UploadRun(todo, names) == [queue |-> todo, uploadedImageNames |-> names]

\* the sequence s without its element i
RemoveAt(s, i) == [j \in 1..(Len(s) - 1) |-> IF j < i THEN s[j] ELSE s[j + 1]]

\* faulty variant: upload() without its guard
UploadGuardOff(flag) == TRUE

\* if (uploading.current) return;
UploadGuard(flag) == ~flag

\* the entry of the given id, if the queue has it, holds another file than name
HoldsOtherFile(q, id, name) ==
  \E i \in 1..Len(q) : q[i].id = id /\ q[i].name # name

\* ascending sequence of the elements of a set of file names
RECURSIVE SetToSeq(_)
SetToSeq(S) ==
  IF S = {} THEN <<>>
  ELSE LET m == CHOOSE x \in S : \A y \in S : x <= y
       IN  <<m>> \o SetToSeq(S \ {m})

\* the File arrays handed to addFiles: none, or files of distinct names
FileArrays == {SetToSeq(S) : S \in SUBSET FileNames}

QueueNames(q) == {q[i].name : i \in 1..Len(q)}

QueueIds(q) == {q[i].id : i \in 1..Len(q)}

\* addFiles without the limit check
AddFilesUnlimited(q, closure, arr, id) ==
  LET filtered == SelectSeq(arr, LAMBDA f :
                    /\ f \notin QueueNames(closure.queue)
                    /\ f \notin closure.uploadedImageNames)
  IN  q \o [i \in 1..Len(filtered) |-> PreviewImage(id + i - 1, filtered[i], "pending")]

\* addFiles: the queue after the call, given the queue state q, the values
\* the closure holds, the files and the first free id
AddFiles(q, closure, arr, id) ==
  IF Len(arr) = 0 THEN q
  ELSE IF Len(closure.queue) + Cardinality(closure.uploadedImageNames) + Len(arr)
            > MaxImages
  THEN q
  ELSE AddFilesUnlimited(q, closure, arr, id)

\* updater of removeImage
RemoveFromQueue(q, id) == SelectSeq(q, LAMBDA x : x.id # id)

\* updater of replaceImage
ReplaceInQueue(q, id, name) ==
  [i \in 1..Len(q) |-> IF q[i].id = id THEN PreviewImage(id, name, "pending") ELSE q[i]]

\* updater q.map(img => img.id === id ? { ...img, status } : img)
SetStatus(q, id, status) ==
  [i \in 1..Len(q) |-> IF q[i].id = id THEN [q[i] EXCEPT !.status = status] ELSE q[i]]

\* updater at the start of upload: pending becomes uploading
MarkUploading(q) ==
  [i \in 1..Len(q) |->
     IF q[i].status = "pending" THEN [q[i] EXCEPT !.status = "uploading"] ELSE q[i]]

\* updater at the end of upload
RemoveUploaded(q) == SelectSeq(q, LAMBDA img : img.status # "uploaded")

\* for (const p of queue) { if (p.status !== "pending") continue; ... }: the
\* items the loop of upload acts on
PendingItems(q) == SelectSeq(q, LAMBDA p : p.status = "pending")

\* The loop of upload over the pending items todo of its closure, up to its
\* next await or to the end of the function: names already uploaded are
\* marked as errors.
RECURSIVE UploadAdvance(_, _, _)
UploadAdvance(q, todo, names) ==
  IF todo = <<>>
  THEN [queue |-> RemoveUploaded(q), todo |-> <<>>, done |-> TRUE]
  ELSE IF Head(todo).name \in names
  THEN UploadAdvance(SetStatus(q, Head(todo).id, "error"), Tail(todo), names)
  ELSE [queue |-> q, todo |-> todo, done |-> FALSE]

(* ------------------------------------------------------------------ *)
(* CollageCanvas: drawing and download                                 *)
(* ------------------------------------------------------------------ *)
\* the canvas component is given 0 .. MaxCanvasPhotos images, of ids 0, 1, ...
MaxCanvasPhotos == 3
\* its mainPhotoId is null or one of the ids 0 .. MaxMainId
MaxMainId == 0
\* at most MaxPending onload callbacks for the component's canvas are
\* registered and not yet run
MaxPending == 4
\* at most MaxDownloads downloadCanvas calls are made
MaxDownloads == 2

\* mainPhotoId === null
NoPhoto == -1

\* the context of the component's canvas; the temporary canvas of the n-th
\* downloadCanvas call has context n
ScreenCtx == 0

CanvasProps(count, mainPhotoId, pattern) ==
  [count |-> count, mainPhotoId |-> mainPhotoId, pattern |-> pattern]

\* the props before any image is there
NoProps == CanvasProps(0, NoPhoto, "grid")

\* !images.length || !mainPhotoId
NothingToDraw(p) == p.count = 0 \/ p.mainPhotoId = NoPhoto

\* lengths on the canvas are counted in hundredths of a pixel:
\* (CANVAS_WIDTH - mainSize) / 2 is 198.5 and CANVAS_WIDTH / 5 is 158.8
Px(n) == 100 * n

\* a drawImgSmartCrop or drawImgFit call: the image and its target rectangle
CanvasDraw(img, x, y, w, h) == [img |-> img, x |-> x, y |-> y, w |-> w, h |-> h]

\* const mainSize = Math.round(CANVAS_WIDTH * MAIN_FRAC), MAIN_FRAC = 0.5
CanvasMainSize == Round2(CANVAS_WIDTH)

\* one pass of the body of the two loops over nTop and nBottom
FrameConfig(nTop, nBottom, totalSide) ==
  LET remaining   == totalSide - (nTop + nBottom)
      nLeft       == (remaining + 1) \div 2
      nRight      == remaining - nLeft
      availW      == CANVAS_WIDTH - CanvasMainSize - (nLeft + nRight + 2) * PADDING
      availH      == CANVAS_HEIGHT - CanvasMainSize - (nTop + nBottom + 2) * PADDING
      sW          == IF nLeft + nRight > 0 THEN availW \div (nLeft + nRight) ELSE 0
      sH          == IF nTop + nBottom > 0 THEN availH \div (nTop + nBottom) ELSE 0
      s           == Max2(1, Min2(sW, sH))
      width_used  == CanvasMainSize + (nLeft + nRight) * s
                       + (nLeft + nRight + 2) * PADDING
      height_used == CanvasMainSize + (nTop + nBottom) * s
                       + (nTop + nBottom + 2) * PADDING
      symmetry    == 0 - Abs(nTop - nBottom) - Abs(nLeft - nRight)
  IN  [nTop |-> nTop, nBottom |-> nBottom, nLeft |-> nLeft, nRight |-> nRight,
       s |-> s, width_used |-> width_used, height_used |-> height_used,
       \* if (remaining < 0) continue; if (nLeft < 0 || nRight < 0) continue;
       \* if ((nTop + nBottom + nLeft + nRight) !== totalSide) continue;
       placed |-> (remaining >= 0 /\ nLeft >= 0 /\ nRight >= 0
                     /\ nTop + nBottom + nLeft + nRight = totalSide),
       \* areaFill * 100 + symmetry, times CANVAS_WIDTH * CANVAS_HEIGHT
       score |-> width_used * height_used * 100
                   + symmetry * CANVAS_WIDTH * CANVAS_HEIGHT]

\* the passes that may set bestConfig: score > bestScore && s > 25, for
\* nTop and nBottom from Math.floor(totalSide / 4) to
\* Math.ceil((totalSide + 3) / 4) + 1
FrameEligible(totalSide) ==
  LET range == (totalSide \div 4)..((totalSide + 6) \div 4 + 1)
  IN  {c \in {FrameConfig(t, b, totalSide) : t \in range, b \in range} :
         c.placed /\ c.s > 25}

\* bestConfig after the loops: the first pass, in the order of the two
\* loops, of the highest score
BestFrameConfig(totalSide) ==
  LET Before(c, d) == c.nTop < d.nTop \/ (c.nTop = d.nTop /\ c.nBottom < d.nBottom)
  IN  CHOOSE c \in FrameEligible(totalSide) :
        \A d \in FrameEligible(totalSide) :
          d.score < c.score \/ (d.score = c.score /\ (d = c \/ Before(c, d)))

\* sideImgs: the ids of the images other than the main one, in order
CanvasSideIds(p) ==
  LET ids == [i \in 1..p.count |-> i - 1]
  IN  SelectSeq(ids, LAMBDA id : id # p.mainPhotoId)

\* the grid branch of the component's drawImagesToCanvas
GridPatternDraws(p) ==
  LET sideImgs  == CanvasSideIds(p)
      totalSide == Len(sideImgs)
      mainSize  == CanvasMainSize
  IN  IF FrameEligible(totalSide) = {}
      THEN {CanvasDraw(p.mainPhotoId, Px(CANVAS_WIDTH - mainSize) \div 2,
                       Px(CANVAS_HEIGHT - mainSize) \div 2, Px(mainSize), Px(mainSize))}
      ELSE
        LET c       == BestFrameConfig(totalSide)
            cell    == c.s + PADDING
            offsetX == Round2(CANVAS_WIDTH - c.width_used)
            offsetY == Round2(CANVAS_HEIGHT - c.height_used)
            Side(idx, x, y) == CanvasDraw(sideImgs[idx + 1], Px(x), Px(y), Px(c.s), Px(c.s))
        IN  {Side(i, offsetX + PADDING + i * cell + c.nLeft * cell,
                  offsetY + PADDING) : i \in 0..(c.nTop - 1)}
            \cup
            {Side(c.nTop + i, offsetX + PADDING + i * cell + c.nLeft * cell,
                  offsetY + PADDING + c.nTop * cell + mainSize + PADDING) :
               i \in 0..(c.nBottom - 1)}
            \cup
            {Side(c.nTop + c.nBottom + i, offsetX + PADDING,
                  offsetY + PADDING + i * cell + c.nTop * cell) :
               i \in 0..(c.nLeft - 1)}
            \cup
            {Side(c.nTop + c.nBottom + c.nLeft + i,
                  offsetX + PADDING + c.nLeft * cell + mainSize + PADDING,
                  offsetY + PADDING + i * cell + c.nTop * cell) :
               i \in 0..(c.nRight - 1)}
            \cup
            {CanvasDraw(p.mainPhotoId, Px(offsetX + PADDING + c.nLeft * cell),
                        Px(offsetY + PADDING + c.nTop * cell), Px(mainSize), Px(mainSize))}

\* the side images of a ring of sides stand at multiples of a right angle,
\* where Math.cos and Math.sin give 0, 1 or -1 to within the precision of a
\* coordinate
ExactRing(sides) == \A i \in 0..(sides - 1) : (4 * i) % sides = 0

\* Math.cos of the angle ((2 * Math.PI) / sides) * i - Math.PI / 2, which is
\* (4 * i) / sides + 3 right angles
RingCos(i, sides) == <<1, 0, -1, 0>>[(((4 * i) \div sides + 3) % 4) + 1]

\* Math.sin of the same angle
RingSin(i, sides) == <<0, 1, 0, -1>>[(((4 * i) \div sides + 3) % 4) + 1]

\* the hexagon and circular branches: the main image in the centre, the
\* others on a circle of radius CANVAS_WIDTH * 0.35 or CANVAS_WIDTH * 0.37
RingPatternDraws(p, radiusPercent) ==
  LET sideImgs == CanvasSideIds(p)
      r        == radiusPercent * CANVAS_WIDTH
      fifth    == Px(CANVAS_WIDTH) \div 5
  IN  {CanvasDraw(p.mainPhotoId, Px(CANVAS_WIDTH) \div 2 - fifth,
                  Px(CANVAS_HEIGHT) \div 2 - fifth, fifth * 2, fifth * 2)}
      \cup
      {CanvasDraw(sideImgs[i + 1],
                  Px(CANVAS_WIDTH) \div 2 + r * RingCos(i, Len(sideImgs)) - Px(50),
                  Px(CANVAS_HEIGHT) \div 2 + r * RingSin(i, Len(sideImgs)) - Px(50),
                  Px(100), Px(100)) : i \in 0..(Len(sideImgs) - 1)}

\* the props the component is rendered with: images of ids 0 .. count - 1,
\* no main photo or one of the first ids, and for the hexagon and circular
\* patterns a number of side images whose positions are exact
AllCanvasProps ==
  {p \in {CanvasProps(c, m, pat) : c \in 0..MaxCanvasPhotos,
                                   m \in {NoPhoto} \cup (0..MaxMainId),
                                   pat \in {"grid", "hexagon", "circular"}} :
     p.pattern = "grid" \/ ExactRing(Len(CanvasSideIds(p)))}

\* the draw calls the component's drawImagesToCanvas registers for each of
\* the props
CanvasDrawsTable ==
  [p \in AllCanvasProps |->
     IF p.count = 0 \/ p.mainPhotoId \notin 0..(p.count - 1) THEN {}
     ELSE IF p.pattern = "grid" THEN GridPatternDraws(p)
     ELSE IF p.pattern = "hexagon" THEN RingPatternDraws(p, 35)
     ELSE RingPatternDraws(p, 37)]

\* what the effect of the component, or a downloadCanvas call, registers for
\* the props: nothing without images or without a main photo
CanvasLayout(p) == IF NothingToDraw(p) THEN {} ELSE CanvasDrawsTable[p]

\* the onload callbacks one drawImagesToCanvas call registers on a context,
\* each with the context and its draw call
LoadsOf(ctx, calls) == SetToBag({[ctx |-> ctx, call |-> c] : c \in calls})

\* the number of callbacks of a bag that wait to draw on the context
PendingOn(bag, ctx) ==
  BagCardinality([l \in {m \in BagToSet(bag) : m.ctx = ctx} |-> bag[l]])

\* ctx.drawImage into the clip rectangle of the call: what it covers no
\* longer shows
Paint(canvas, call) ==
  LET Covers(b, a) == /\ b.x <= a.x /\ a.x + a.w <= b.x + b.w
                      /\ b.y <= a.y /\ a.y + a.h <= b.y + b.h
  IN  {d \in canvas : ~Covers(call, d)} \cup {call}

\* a downloadCanvas call: where it is ("waiting" for its 500 ms timer,
\* "importing" jspdf, or "done"), its format, the draw calls it registered
\* and the content it serialised
Download(state, format, calls, exported) ==
  [state |-> state, format |-> format, calls |-> calls, exported |-> exported]

(* ------------------------------------------------------------------ *)
(* useCollageImages                                                    *)
(* ------------------------------------------------------------------ *)
\* images.length + files.length > 100
UploadLimit == 100
\* list(sessionId, { limit: 100, offset: 0 })
ListLimit == 100
\* at most MaxCalls calls of the hook are at an await at a time
MaxCalls == 2

\* files a resumed session finds in its folder, of names 1 .. UploadLimit - 1
PriorFolder == 1..(UploadLimit - 1)

\* the file lists given to uploadImages: none, one new file, another one
FileBatches == {{}, {UploadLimit}, {UploadLimit + 1}}

\* no call of uploadImages or clearAllImages has returned since the last render
NoCall == [op |-> "none", outcome |-> "none", requests |-> 0,
           imagesKept |-> TRUE, imagesEmpty |-> TRUE,
           loadingKept |-> TRUE, loadingAfter |-> FALSE]

\* what a call did up to the step that records it: how it went, the storage
\* requests it sent, whether it left images and loading as they were, and
\* what it left
CallRecord(op, result, requests, imagesAfter, loadingAfter) ==
  [op |-> op, outcome |-> result, requests |-> requests,
   imagesKept |-> (imagesAfter = uploadedImageNames),
   imagesEmpty |-> (imagesAfter = {}),
   loadingKept |-> (loadingAfter = loading), loadingAfter |-> loadingAfter]

\* if (images.length + files.length > 100)
OverUploadLimit(known, files) == Cardinality(known) + Cardinality(files) > UploadLimit

\* the files the loop sends: those whose name images does not hold
FilesToSend(known, files) == files \ known

\* the smallest name of a non-empty set of files: the next one the loop sends
FirstFile(files) == CHOOSE f \in files : \A g \in files : f <= g

\* the first ListLimit names of the folder
RECURSIVE ListFolder(_, _)
ListFolder(names, limit) ==
  IF names = {} \/ limit = 0 THEN {}
  ELSE {FirstFile(names)} \cup ListFolder(names \ {FirstFile(names)}, limit - 1)

\* createSignedUrl gives no url for at most MaxUnsigned files of a listing
MaxUnsigned == 1

\* the last count names of a set of files
RECURSIVE LastFiles(_, _)
LastFiles(names, count) ==
  IF names = {} \/ count = 0 THEN {}
  ELSE LET last == CHOOSE f \in names : \A g \in names : g <= f
       IN  {last} \cup LastFiles(names \ {last}, count - 1)

\* the sets of listed files that may come back without a signed url
Unsigned(listed) == SUBSET LastFiles(listed, MaxUnsigned)

\* urls.filter((f) => !!f.url): the listed files that have a signed url
WithSignedUrl(listed, unsigned) == listed \ unsigned

\* faulty variant: the image list is emptied whatever the removal reports
ImagesAfterClearAlways(ok, known) == {}

\* if (error) toast.error(...) else setImages([])
ImagesAfterClear(ok, known) == IF ok THEN {} ELSE known

\* pages, gaps and layoutConfig values given to the main-fraction search
FracMinW == 118
FracMaxW == 120
FracMinH == 196
FracMaxH == 197
MaxEdge == 4

\* <<W, H, GAP>>: small portrait pages with every small gap, and the program's
\* page, portrait and landscape, with its padding
FractionPages ==
  {<<W, H, GAP>> : W \in FracMinW..FracMaxW, H \in FracMinH..FracMaxH, GAP \in 0..MaxGap}
    \cup {<<CANVAS_WIDTH, CANVAS_HEIGHT, PADDING>>, <<CANVAS_HEIGHT, CANVAS_WIDTH, PADDING>>}

LayoutConfigs ==
  {Divisions(t + b + l + r, t, b, l, r) : t \in 0..MaxEdge, b \in 0..MaxEdge,
                                         l \in 0..MaxEdge, r \in 0..MaxEdge}

(* ------------------------------------------------------------------ *)
(* The three search loops, one iteration per step                      *)
(* ------------------------------------------------------------------ *)
\* rings walked step by step: 1 .. MaxRing
MaxRing == 6

\* no iteration is modelled beyond this count
MaxLoopSteps == 320

NoLoop == [kind |-> "none", steps |-> 0, done |-> FALSE]

\* requests whose loops are run step by step: the valid ones with side photos
LoopRequests ==
  {r \in A4Requests \cup SmallRequests :
     ValidRequest(r) /\ r.imagesCount >= 2 /\ r.mainPhotoIndex = 0}

\* layoutConfig values of the step-by-step main-fraction search
LoopConfigs ==
  {getDivisions(n) : n \in 0..MaxSideCount}
    \cup {Divisions(b + r, 0, b, 0, r) : b \in 0..MaxEdge, r \in 0..MaxEdge}

(* ------------------------------------------------------------------ *)
(* State machine                                                       *)
(* ------------------------------------------------------------------ *)
\* the state after construction, the image list hook, its folder and what
\* the canvas component shows aside
InitComponents ==
  /\ pc = "idle"
  /\ req = ZeroRequest
  /\ layout = ZeroLayout
  /\ outcome = "none"
  /\ divisions = ZeroDivisions
  /\ drawn = <<>>
  /\ toasts = <<>>
  /\ bestConfig = ZeroConfig
  /\ hexLayout = ZeroHexLayout
  /\ loop = NoLoop
  /\ queue = <<>>
  /\ uploadedImageNames = {}
  /\ rendered = [queue |-> <<>>, uploadedImageNames |-> {}]
  /\ uploading = FALSE
  /\ runs = <<>>
  /\ nextId = 1
  /\ stale = 0
  /\ addedOverLimit = FALSE
  /\ overridden = FALSE
  /\ loads = EmptyBag
  /\ temp = <<>>
  /\ download = <<>>
  /\ lastCall = NoCall

\* the layout functions, the renderer and the canvas component on their own:
\* the hooks of the collage builder are at rest
Init ==
  /\ InitComponents
  /\ storage = {}
  /\ loading = FALSE
  /\ inflight = <<>>
  /\ reactDefined = TRUE
  /\ props = NoProps
  /\ screen = {}

\* the canvas component rendered with some props, its images loaded and
\* drawn, before any download
InitRendered ==
  /\ InitComponents
  /\ storage = {}
  /\ loading = FALSE
  /\ inflight = <<>>
  /\ reactDefined = TRUE
  /\ props \in AllCanvasProps
  /\ screen = CanvasLayout(props)

\* the first render of the collage builder with one of the folders: when
\* React is defined the hooks return, images is empty and the effect of
\* useCollageImages has called fetchImages; when it is not, the render
\* throws at React.useEffect and no effect runs
BuilderMounted(folders) ==
  /\ InitComponents
  /\ storage \in folders
  /\ reactDefined \in BOOLEAN
  /\ loading = reactDefined
  /\ inflight = IF reactDefined THEN <<[op |-> "fetchImages"]>> ELSE <<>>
  /\ props = NoProps
  /\ screen = {}

\* the page in a tab with a new session id
InitQueue == BuilderMounted({{}})

\* the page in a tab whose session id is new or already has a folder
InitResumed == BuilderMounted({{}, PriorFolder})

\* a direct call of calculateGridLayout: it has no throw statement and
\* returns a GridLayoutResult on every path
CallCalculateGridLayout ==
  /\ pc = "idle"
  /\ \E r \in Requests :
       /\ req' = r
       /\ layout' = calculateGridLayout(r)
  /\ outcome' = "returned"
  /\ pc' = "calculateGridLayout"
  /\ UNCHANGED <<divisions, drawn, toasts>>
  /\ UNCHANGED otherVars
  /\ UNCHANGED <<queueVars, canvasVars, imagesVars, buildVars>>

\* a direct call of the frame version: no throw statement either
CallCalculateGridLayoutFrame ==
  /\ pc = "idle"
  /\ \E r \in Requests :
       /\ req' = r
       /\ layout' = calculateGridLayoutFrame(r)
  /\ outcome' = "returned"
  /\ pc' = "calculateGridLayoutFrame"
  /\ UNCHANGED <<divisions, drawn, toasts>>
  /\ UNCHANGED otherVars
  /\ UNCHANGED <<queueVars, canvasVars, imagesVars, buildVars>>

\* drawImagesToCanvas(ctx, images, mainPhotoId, "grid", W, H, PADDING)
CallDrawImagesToCanvas ==
  /\ pc = "idle"
  /\ \E r \in {q \in Requests : q.imagesCount >= 0} :
       LET images  == Images(r)
           mainIdx == FindMainIndex(images, r.mainPhotoIndex)
           lay     == calculateGridLayout(r)
       IN  /\ req' = r
           /\ IF Len(images) = 0 \/ mainIdx = -1
              THEN /\ layout' = ZeroLayout
                   /\ outcome' = "none"
                   /\ drawn' = <<>>
                   /\ toasts' = <<>>
              ELSE /\ layout' = lay
                   /\ outcome' = "returned"
                   /\ drawn' = DrawCalls(images, r.mainPhotoIndex, lay)
                   /\ toasts' = IF Len(images) > ToastThreshold
                                THEN <<"too-many-photos-warning">>
                                ELSE <<>>
  /\ pc' = "drawImagesToCanvas"
  /\ UNCHANGED divisions
  /\ UNCHANGED otherVars
  /\ UNCHANGED <<queueVars, canvasVars, imagesVars, buildVars>>

CallGetDivisions ==
  /\ pc = "idle"
  /\ \E n \in 0..MaxSideCount : divisions' = getDivisions(n)
  /\ pc' = "getDivisions"
  /\ UNCHANGED <<req, layout, outcome, drawn, toasts>>
  /\ UNCHANGED otherVars
  /\ UNCHANGED <<queueVars, canvasVars, imagesVars, buildVars>>

CallCalculateSidePhotoDistribution ==
  /\ pc = "idle"
  /\ \E n \in 0..MaxSideCount : divisions' = calculateSidePhotoDistribution(n)
  /\ pc' = "calculateSidePhotoDistribution"
  /\ UNCHANGED <<req, layout, outcome, drawn, toasts>>
  /\ UNCHANGED otherVars
  /\ UNCHANGED <<queueVars, canvasVars, imagesVars, buildVars>>

CallTryDistributeSidePhotos ==
  /\ pc = "idle"
  /\ \E n \in 0..MaxSideCount : divisions' = tryDistributeSidePhotos(n)
  /\ pc' = "tryDistributeSidePhotos"
  /\ UNCHANGED <<req, layout, outcome, drawn, toasts>>
  /\ UNCHANGED otherVars
  /\ UNCHANGED <<queueVars, canvasVars, imagesVars, buildVars>>

\* drawImagesToCanvas(ctx, images, mainPhotoId, "grid", W, H, GAP, layoutConfig)
\* of the main-fraction search version; given = FALSE is a null layoutConfig
CallDrawImagesToCanvasLayoutConfig ==
  /\ pc = "idle"
  /\ \E pg \in FractionPages, d \in LayoutConfigs :
       \E count \in {d.n + 1} \cup (IF d.n = 0 THEN {0} ELSE {}),
          mainPhotoId \in {0} \cup (IF d.n = 1 THEN {-1} ELSE {}),
          given \in {TRUE} \cup (IF d.n = 2 THEN {FALSE} ELSE {}) :
         LET GAP     == pg[3]
             r       == Request(pg[1], pg[2], GAP, count, mainPhotoId)
             images  == Images(r)
             mainIdx == FindMainIndex(images, mainPhotoId)
         IN  /\ req' = r
             /\ divisions' = d
             /\ IF Len(images) = 0 \/ mainIdx = -1 \/ ~given
                THEN /\ outcome' = "none"
                     /\ bestConfig' = ZeroConfig
                     /\ drawn' = <<>>
                ELSE \E cfg \in {SearchConfig(pg[1], pg[2], GAP, d)} :
                       /\ outcome' = "returned"
                       /\ bestConfig' = cfg
                       /\ drawn' = ConfigDraws(images, mainPhotoId, d, cfg)
  /\ pc' = "drawImagesToCanvasLayoutConfig"
  /\ UNCHANGED <<layout, toasts, hexLayout, loop>>
  /\ UNCHANGED <<queueVars, canvasVars, imagesVars, buildVars>>

\* a direct call of the binary-search version of calculateGridLayout
CallCalculateGridLayoutBinary ==
  /\ pc = "idle"
  /\ \E r \in {q \in Requests : ValidRequest(q) \/ q.imagesCount < 1} :
       /\ req' = r
       /\ layout' = calculateGridLayoutBinary(r)
  /\ outcome' = "returned"
  /\ pc' = "calculateGridLayoutBinary"
  /\ UNCHANGED <<divisions, drawn, toasts>>
  /\ UNCHANGED otherVars
  /\ UNCHANGED <<queueVars, canvasVars, imagesVars, buildVars>>

\* for (let s = maxSideSize; s >= 1; --s) of the search-based version
StartCellSizeSearch ==
  /\ pc = "idle"
  /\ \E r \in LoopRequests :
       LET nb == nBySide(r.imagesCount - 1)
       IN  loop' = [kind |-> "cellSize", r |-> r, nb |-> nb,
                    s |-> maxSideSize(r.canvasWidth, r.canvasHeight, r.padding, nb),
                    steps |-> 0, done |-> FALSE]
  /\ pc' = "searching"
  /\ UNCHANGED <<req, layout, outcome, divisions, drawn, toasts, bestConfig, hexLayout>>
  /\ UNCHANGED <<queueVars, canvasVars, imagesVars, buildVars>>

\* one test of s >= 1 and, when it holds, one pass through the loop body: the
\* pass that stores a layout breaks out of the loop
CellSizeIteration ==
  /\ pc = "searching"
  /\ loop.kind = "cellSize"
  /\ ~loop.done
  /\ loop.steps < MaxLoopSteps
  /\ loop' =
       IF loop.s >= 1
       THEN IF Stores(loop.r.canvasWidth, loop.r.canvasHeight, loop.r.padding,
                      loop.nb, loop.s)
            THEN [loop EXCEPT !.steps = @ + 1, !.done = TRUE]
            ELSE [loop EXCEPT !.steps = @ + 1, !.s = @ - 1]
       ELSE [loop EXCEPT !.done = TRUE]
  /\ UNCHANGED <<pc, req, layout, outcome, divisions, drawn, toasts, bestConfig, hexLayout>>
  /\ UNCHANGED <<queueVars, canvasVars, imagesVars, buildVars>>

\* for (let mainFrac = 0.6; mainFrac >= 0.3; mainFrac -= 0.01)
StartMainFractionSearch ==
  /\ pc = "idle"
  /\ \E pg \in FractionPages, d \in LoopConfigs :
       loop' = [kind |-> "mainFraction",
                r |-> Request(pg[1], pg[2], pg[3], d.n + 1, 0), d |-> d,
                k |-> 0, best |-> ZeroConfig, maxAreaFill |-> 0,
                steps |-> 0, done |-> FALSE]
  /\ pc' = "searching"
  /\ UNCHANGED <<req, layout, outcome, divisions, drawn, toasts, bestConfig, hexLayout>>
  /\ UNCHANGED <<queueVars, canvasVars, imagesVars, buildVars>>

\* one test of mainFrac >= 0.3 and, when it holds, one pass through the body
MainFractionIteration ==
  /\ pc = "searching"
  /\ loop.kind = "mainFraction"
  /\ ~loop.done
  /\ loop.steps < MaxLoopSteps
  /\ loop' =
       IF loop.k < MainFracSteps
       THEN LET W == loop.r.canvasWidth
                H == loop.r.canvasHeight
                c == Candidate(W, H, loop.r.padding, loop.d, loop.k)
            IN  IF Accepts(W, H, c, loop.maxAreaFill)
                THEN [loop EXCEPT !.steps = @ + 1, !.k = @ + 1,
                                  !.best = Config(c.main, c.side,
                                             FloorDiv(W - c.totalW + 2 * loop.r.padding, 2),
                                             FloorDiv(H - c.totalH + 2 * loop.r.padding, 2),
                                             loop.r.padding),
                                  !.maxAreaFill = c.fill]
                ELSE [loop EXCEPT !.steps = @ + 1, !.k = @ + 1]
       ELSE [loop EXCEPT !.done = TRUE]
  /\ UNCHANGED <<pc, req, layout, outcome, divisions, drawn, toasts, bestConfig, hexLayout>>
  /\ UNCHANGED <<queueVars, canvasVars, imagesVars, buildVars>>

\* while (low <= high) of computeSideSize in the binary-search version
StartBinarySearch ==
  /\ pc = "idle"
  /\ \E r \in LoopRequests :
       loop' = [kind |-> "binary", r |-> r,
                nb |-> BinaryCounts(r.imagesCount - 1),
                mainW |-> BinaryMainW(r.canvasWidth),
                st |-> SearchState(1, Min2(r.canvasWidth, r.canvasHeight), 1),
                steps |-> 0, done |-> FALSE]
  /\ pc' = "searching"
  /\ UNCHANGED <<req, layout, outcome, divisions, drawn, toasts, bestConfig, hexLayout>>
  /\ UNCHANGED <<queueVars, canvasVars, imagesVars, buildVars>>

\* one test of low <= high and, when it holds, one pass through the body
BinaryIteration ==
  /\ pc = "searching"
  /\ loop.kind = "binary"
  /\ ~loop.done
  /\ loop.steps < MaxLoopSteps
  /\ loop' =
       IF loop.st.low <= loop.st.high
       THEN [loop EXCEPT !.steps = @ + 1,
                         !.st = BinaryStep(loop.r.canvasWidth, loop.r.canvasHeight,
                                           loop.r.padding, loop.nb, loop.mainW, @)]
       ELSE [loop EXCEPT !.done = TRUE]
  /\ UNCHANGED <<pc, req, layout, outcome, divisions, drawn, toasts, bestConfig, hexLayout>>
  /\ UNCHANGED <<queueVars, canvasVars, imagesVars, buildVars>>

\* generateRingPositions(ring) up to its loops: the first ring is returned as
\* written, the others start at q = ring, r = -ring with no result yet
StartRingWalk ==
  /\ pc = "idle"
  /\ \E ring \in 1..MaxRing :
       loop' = IF ring = 1
               THEN [kind |-> "ring", ring |-> ring, i |-> 0, q |-> 0, r |-> 0,
                     results |-> generateRingPositions(1), steps |-> 0, done |-> TRUE]
               ELSE [kind |-> "ring", ring |-> ring, i |-> 0, q |-> ring, r |-> -ring,
                     results |-> <<>>, steps |-> 0, done |-> FALSE]
  /\ pc' = "generateRingPositions"
  /\ UNCHANGED <<req, layout, outcome, divisions, drawn, toasts, bestConfig, hexLayout>>
  /\ UNCHANGED <<queueVars, canvasVars, imagesVars, buildVars>>

\* one pass through the body of the inner loop (i = side * ring + step), or
\* the return once all six sides are walked
RingStep ==
  /\ pc = "generateRingPositions"
  /\ ~loop.done
  /\ loop' =
       IF loop.i < 6 * loop.ring
       THEN LET dir == Directions[(loop.i \div loop.ring) + 1]
            IN  [loop EXCEPT !.results = Append(@, HexCoord(loop.q, loop.r)),
                             !.q = @ + dir.dq,
                             !.r = @ + dir.dr,
                             !.i = @ + 1,
                             !.steps = @ + 1]
       ELSE [loop EXCEPT !.done = TRUE]
  /\ UNCHANGED <<pc, req, layout, outcome, divisions, drawn, toasts, bestConfig, hexLayout>>
  /\ UNCHANGED <<queueVars, canvasVars, imagesVars, buildVars>>

\* a call of calculateHexagonLayout
CallCalculateHexagonLayout ==
  /\ pc = "idle"
  /\ \E r \in HexRequests :
       /\ req' = r
       /\ hexLayout' = calculateHexagonLayout(r)
  /\ outcome' = "returned"
  /\ pc' = "calculateHexagonLayout"
  /\ UNCHANGED <<layout, divisions, drawn, toasts, bestConfig, loop>>
  /\ UNCHANGED <<queueVars, canvasVars, imagesVars, buildVars>>

\* a call of calculateSpecialGridLayout({ canvasWidth, canvasHeight, padding })
CallCalculateSpecialGridLayout ==
  /\ pc = "idle"
  /\ \E r \in {q \in A4Requests \cup SmallRequests : q.imagesCount = 0} :
       /\ req' = r
       /\ layout' = calculateSpecialGridLayout(r.canvasWidth, r.canvasHeight, r.padding)
  /\ outcome' = "returned"
  /\ pc' = "calculateSpecialGridLayout"
  /\ UNCHANGED <<divisions, drawn, toasts>>
  /\ UNCHANGED otherVars
  /\ UNCHANGED <<queueVars, canvasVars, imagesVars, buildVars>>

\* addFiles(files)
CallAddFiles ==
  \E arr \in FileArrays :
    /\ reactDefined
    /\ stale < MaxStale
    /\ nextId + Len(arr) <= MaxIds + 1
    /\ queue' = AddFiles(queue, rendered, arr, nextId)
    /\ nextId' = nextId + (Len(queue') - Len(queue))
    /\ addedOverLimit' =
         \/ addedOverLimit
         \/ /\ Len(queue) + Cardinality(uploadedImageNames) + Len(arr) > MaxImages
            /\ queue' # queue
    /\ stale' = stale + 1
    /\ UNCHANGED <<uploadedImageNames, rendered, storage, uploading, runs, overridden>>
    /\ UNCHANGED <<layoutVars, canvasVars, imagesVars, buildVars>>

\* removeImage(id), with the id of a preview the last render returned
CallRemoveImage ==
  \E id \in QueueIds(rendered.queue) :
    /\ reactDefined
    /\ stale < MaxStale
    /\ queue' = RemoveFromQueue(queue, id)
    /\ stale' = stale + 1
    /\ UNCHANGED <<uploadedImageNames, rendered, storage, uploading, runs, nextId,
                   addedOverLimit, overridden>>
    /\ UNCHANGED <<layoutVars, canvasVars, imagesVars, buildVars>>

\* replaceImage(id, file), with the id of a preview the last render returned
CallReplaceImage ==
  \E id \in QueueIds(rendered.queue), name \in FileNames :
    /\ reactDefined
    /\ stale < MaxStale
    /\ queue' = ReplaceInQueue(queue, id, name)
    /\ stale' = stale + 1
    /\ UNCHANGED <<uploadedImageNames, rendered, storage, uploading, runs, nextId,
                   addedOverLimit, overridden>>
    /\ UNCHANGED <<layoutVars, canvasVars, imagesVars, buildVars>>

\* upload() past its guard, from the call to its first await or, with
\* nothing to await, to its end
CallUpload ==
  /\ reactDefined
  /\ stale < MaxStale
  /\ UploadGuard(uploading)
  /\ LET a == UploadAdvance(MarkUploading(queue), PendingItems(rendered.queue),
                            rendered.uploadedImageNames)
     IN  /\ queue' = a.queue
         /\ uploading' = ~a.done
         /\ runs' = IF a.done THEN runs
                    ELSE Append(runs, UploadRun(a.todo, rendered.uploadedImageNames))
  /\ stale' = stale + 1
  /\ UNCHANGED <<uploadedImageNames, rendered, storage, nextId, addedOverLimit,
                 overridden>>
  /\ UNCHANGED <<layoutVars, canvasVars, imagesVars, buildVars>>

\* upload() resumes after the awaited storage upload of one file: the bucket
\* refuses a name it already holds (upsert: false) and any request may fail
UploadResolves ==
  /\ stale < MaxStale
  /\ \E n \in 1..Len(runs) :
       LET run == runs[n]
           p   == Head(run.queue)
       IN  \E ok \in {b \in BOOLEAN : b => p.name \notin storage} :
             LET q == SetStatus(queue, p.id, IF ok THEN "uploaded" ELSE "error")
                 a == UploadAdvance(q, Tail(run.queue), run.uploadedImageNames)
             IN  /\ storage' = IF ok THEN storage \cup {p.name} ELSE storage
                 /\ overridden' = (overridden \/ (ok /\ HoldsOtherFile(queue, p.id, p.name)))
                 /\ queue' = a.queue
                 /\ uploading' = IF a.done THEN FALSE ELSE uploading
                 /\ runs' = IF a.done THEN RemoveAt(runs, n)
                            ELSE [runs EXCEPT ![n] = UploadRun(a.todo, run.uploadedImageNames)]
  /\ stale' = stale + 1
  /\ UNCHANGED <<uploadedImageNames, rendered, nextId, addedOverLimit>>
  /\ UNCHANGED <<layoutVars, canvasVars, imagesVars, buildVars>>

\* the component re-renders: the hook's functions are created anew over the
\* current queue and image names; lastCall tells of the calls since then
Render ==
  /\ reactDefined
  /\ stale > 0
  /\ rendered' = [queue |-> queue, uploadedImageNames |-> uploadedImageNames]
  /\ stale' = 0
  /\ lastCall' = NoCall
  /\ UNCHANGED <<queue, uploadedImageNames, storage, uploading, runs, nextId,
                 addedOverLimit, overridden>>
  /\ UNCHANGED <<loading, inflight>>
  /\ UNCHANGED <<layoutVars, canvasVars, buildVars>>

\* uploadImages(files) up to its first await; with no file to send it runs to
\* its end, which starts fetchImages
CallUploadImages ==
  \E files \in FileBatches :
    /\ reactDefined
    /\ LET known == rendered.uploadedImageNames
           todo  == FilesToSend(known, files)
       IN  IF files = {}
           THEN /\ lastCall' = CallRecord("uploadImages", "skipped", 0,
                                          uploadedImageNames, loading)
                /\ UNCHANGED <<loading, inflight, stale>>
           ELSE IF OverUploadLimit(known, files)
           THEN /\ lastCall' = CallRecord("uploadImages", "rejected", 0,
                                          uploadedImageNames, loading)
                /\ UNCHANGED <<loading, inflight, stale>>
           ELSE /\ Len(inflight) < MaxCalls
                /\ stale < MaxStale
                /\ lastCall' = CallRecord("uploadImages", "started",
                                          IF todo = {} THEN 0 ELSE 1,
                                          uploadedImageNames, todo # {})
                /\ loading' = (todo # {})
                /\ inflight' = Append(inflight,
                                 IF todo = {} THEN [op |-> "fetchImages"]
                                 ELSE [op |-> "uploadImages", todo |-> todo])
                /\ stale' = stale + 1
    /\ UNCHANGED <<queue, uploadedImageNames, rendered, storage, uploading, runs,
                   nextId, addedOverLimit, overridden>>
    /\ UNCHANGED <<layoutVars, canvasVars, buildVars>>

\* uploadImages resumes after the storage upload of one file, which stored it
\* or reported an error (the bucket refuses a name it holds, upsert: false;
\* any request may fail); after the last file it starts fetchImages and sets
\* loading to false
UploadImagesResolves ==
  \E n \in 1..Len(inflight), ok \in BOOLEAN :
    /\ inflight[n].op = "uploadImages"
    /\ LET f    == FirstFile(inflight[n].todo)
           rest == inflight[n].todo \ {f}
       IN  /\ storage' = IF ok THEN storage \cup {f} ELSE storage
           /\ IF rest = {}
              THEN /\ inflight' = [inflight EXCEPT ![n] = [op |-> "fetchImages"]]
                   /\ loading' = FALSE
                   /\ stale' = Min2(stale + 1, MaxStale)
              ELSE /\ inflight' = [inflight EXCEPT ![n] = [op |-> "uploadImages", todo |-> rest]]
                   /\ UNCHANGED <<loading, stale>>
    /\ UNCHANGED lastCall
    /\ UNCHANGED <<queue, uploadedImageNames, rendered, uploading, runs, nextId,
                   addedOverLimit, overridden>>
    /\ UNCHANGED <<layoutVars, canvasVars, buildVars>>

\* fetchImages() up to its await of the listing
CallFetchImages ==
  /\ reactDefined
  /\ Len(inflight) < MaxCalls
  /\ stale < MaxStale
  /\ loading' = TRUE
  /\ inflight' = Append(inflight, [op |-> "fetchImages"])
  /\ stale' = stale + 1
  /\ UNCHANGED lastCall
  /\ UNCHANGED <<queue, uploadedImageNames, rendered, storage, uploading, runs,
                 nextId, addedOverLimit, overridden>>
  /\ UNCHANGED <<layoutVars, canvasVars, buildVars>>

\* fetchImages resumes from its await of the listing: on an error it sets
\* loading to false and returns; otherwise it asks for a signed url of each
\* of the first ListLimit files of the folder and awaits them all. With no
\* file listed no request is sent and Promise.all([]) does not wait for
\* one: images becomes empty and loading false in the same step
FetchImagesListed ==
  \E n \in 1..Len(inflight), ok \in BOOLEAN :
    /\ inflight[n].op = "fetchImages"
    /\ IF ok /\ ListFolder(storage, ListLimit) # {}
       THEN /\ inflight' = [inflight EXCEPT
                               ![n] = [op |-> "createSignedUrl",
                                       listed |-> ListFolder(storage, ListLimit)]]
            /\ UNCHANGED <<uploadedImageNames, loading, stale>>
       ELSE /\ inflight' = RemoveAt(inflight, n)
            /\ uploadedImageNames' = IF ok THEN {} ELSE uploadedImageNames
            /\ loading' = FALSE
            /\ stale' = Min2(stale + 1, MaxStale)
    /\ UNCHANGED lastCall
    /\ UNCHANGED <<queue, rendered, storage, uploading, runs, nextId,
                   addedOverLimit, overridden>>
    /\ UNCHANGED <<layoutVars, canvasVars, buildVars>>

\* fetchImages resumes from its await of the signed urls: images becomes the
\* files of its listing that have a url, and loading false
FetchImagesResolves ==
  \E n \in 1..Len(inflight) :
    /\ inflight[n].op = "createSignedUrl"
    /\ \E unsigned \in Unsigned(inflight[n].listed) :
         uploadedImageNames' = WithSignedUrl(inflight[n].listed, unsigned)
    /\ loading' = FALSE
    /\ inflight' = RemoveAt(inflight, n)
    /\ stale' = Min2(stale + 1, MaxStale)
    /\ UNCHANGED lastCall
    /\ UNCHANGED <<queue, rendered, storage, uploading, runs, nextId,
                   addedOverLimit, overridden>>
    /\ UNCHANGED <<layoutVars, canvasVars, buildVars>>

\* clearAllImages() up to its await of the removal
CallClearAllImages ==
  /\ reactDefined
  /\ IF rendered.uploadedImageNames = {}
     THEN /\ lastCall' = CallRecord("clearAllImages", "skipped", 0,
                                    uploadedImageNames, loading)
          /\ UNCHANGED <<loading, inflight, stale>>
     ELSE /\ Len(inflight) < MaxCalls
          /\ stale < MaxStale
          /\ loading' = TRUE
          /\ inflight' = Append(inflight, [op |-> "clearAllImages",
                                     names |-> rendered.uploadedImageNames])
          /\ stale' = stale + 1
          /\ UNCHANGED lastCall
  /\ UNCHANGED <<queue, uploadedImageNames, rendered, storage, uploading, runs,
                 nextId, addedOverLimit, overridden>>
  /\ UNCHANGED <<layoutVars, canvasVars, buildVars>>

\* clearAllImages resumes after the removal, which succeeded or reported an
\* error, and runs to its end
ClearAllImagesResolves ==
  \E n \in 1..Len(inflight), ok \in BOOLEAN :
    /\ inflight[n].op = "clearAllImages"
    /\ storage' = IF ok THEN storage \ inflight[n].names ELSE storage
    /\ uploadedImageNames' = ImagesAfterClear(ok, uploadedImageNames)
    /\ loading' = FALSE
    /\ lastCall' = CallRecord("clearAllImages", IF ok THEN "removed" ELSE "error", 1,
                              uploadedImageNames', FALSE)
    /\ inflight' = RemoveAt(inflight, n)
    /\ stale' = Min2(stale + 1, MaxStale)
    /\ UNCHANGED <<queue, rendered, uploading, runs, nextId, addedOverLimit, overridden>>
    /\ UNCHANGED <<layoutVars, canvasVars, buildVars>>

\* the component renders and its effect runs, for new images, mainPhotoId or
\* pattern or for a change of locked or of the identity of the images array:
\* clearRect alone when there is nothing to draw, drawImagesToCanvas otherwise
CanvasEffect ==
  \E p \in AllCanvasProps :
    /\ PendingOn(loads, ScreenCtx) + Cardinality(CanvasLayout(p)) <= MaxPending
    /\ props' = p
    /\ screen' = {}
    /\ loads' = loads (+) LoadsOf(ScreenCtx, CanvasLayout(p))
    /\ UNCHANGED <<temp, download>>
    /\ UNCHANGED <<layoutVars, queueVars, imagesVars, buildVars>>

\* an image of the component's canvas finishes loading and its onload
\* callback draws it
ImageOnload ==
  \E l \in BagToSet(loads) :
    /\ l.ctx = ScreenCtx
    /\ loads' = loads (-) SetToBag({l})
    /\ screen' = Paint(screen, l.call)
    /\ UNCHANGED <<props, temp, download>>
    /\ UNCHANGED <<layoutVars, queueVars, imagesVars, buildVars>>

\* an image of a temporary canvas finishes loading and its onload callback
\* draws it
TempImageOnload ==
  \E l \in BagToSet(loads) :
    /\ l.ctx # ScreenCtx
    /\ loads' = loads (-) SetToBag({l})
    /\ temp' = [temp EXCEPT ![l.ctx] = Paint(@, l.call)]
    /\ UNCHANGED <<props, screen, download>>
    /\ UNCHANGED <<layoutVars, queueVars, imagesVars, buildVars>>

\* downloadCanvas(format) with images and a mainPhotoId, up to its await of
\* the 500 ms timer: a new temporary canvas and the draws registered on it
CallDownloadCanvas ==
  \E format \in {"png", "pdf"} :
    /\ Len(download) < MaxDownloads
    /\ ~NothingToDraw(props)
    /\ temp' = Append(temp, {})
    /\ loads' = loads (+) LoadsOf(Len(download) + 1, CanvasLayout(props))
    /\ download' = Append(download, Download("waiting", format, CanvasLayout(props), {}))
    /\ UNCHANGED <<props, screen>>
    /\ UNCHANGED <<layoutVars, queueVars, imagesVars, buildVars>>

\* the timer of a downloadCanvas call fires: for "png" the temporary canvas
\* is serialised, for "pdf" the call goes on to await import("jspdf")
DownloadTimeout ==
  \E n \in 1..Len(download) :
    /\ download[n].state = "waiting"
    /\ download' = [download EXCEPT ![n] =
                      IF @.format = "png"
                      THEN Download("done", @.format, @.calls, temp[n])
                      ELSE Download("importing", @.format, @.calls, {})]
    /\ UNCHANGED <<props, loads, screen, temp>>
    /\ UNCHANGED <<layoutVars, queueVars, imagesVars, buildVars>>

\* import("jspdf") resolves: the temporary canvas is serialised into the pdf
JsPdfImported ==
  \E n \in 1..Len(download) :
    /\ download[n].state = "importing"
    /\ download' = [download EXCEPT ![n] =
                      Download("done", @.format, @.calls, temp[n])]
    /\ UNCHANGED <<props, loads, screen, temp>>
    /\ UNCHANGED <<layoutVars, queueVars, imagesVars, buildVars>>

Next ==
  \/ CallCalculateGridLayout
  \/ CallCalculateGridLayoutFrame
  \/ CallDrawImagesToCanvas
  \/ CallGetDivisions
  \/ CallCalculateSidePhotoDistribution
  \/ CallTryDistributeSidePhotos

Spec == Init /\ [][Next]_vars

\* the renderer of the main-fraction search version on its own
NextFraction == CallDrawImagesToCanvasLayoutConfig

SpecFraction == Init /\ [][NextFraction]_vars

\* the binary-search version of calculateGridLayout on its own
NextBinary == CallCalculateGridLayoutBinary

SpecBinary == Init /\ [][NextBinary]_vars

\* the search loops run iteration by iteration
NextLoops ==
  \/ StartCellSizeSearch
  \/ CellSizeIteration
  \/ StartMainFractionSearch
  \/ MainFractionIteration
  \/ StartBinarySearch
  \/ BinaryIteration

SpecLoops == Init /\ [][NextLoops]_vars

\* each loop is synchronous code that the engine runs to its end: an
\* iteration that can run does run
SpecLoopsFair ==
  /\ SpecLoops
  /\ WF_vars(CellSizeIteration)
  /\ WF_vars(MainFractionIteration)
  /\ WF_vars(BinaryIteration)

\* the ring walk of the hexagon layout, step by step
NextRing ==
  \/ StartRingWalk
  \/ RingStep

SpecRing == Init /\ [][NextRing]_vars

\* the canvas component on the page: effect runs and image loads
NextCanvas ==
  \/ CanvasEffect
  \/ ImageOnload

SpecCanvas == Init /\ [][NextCanvas]_vars

\* the downloads of a canvas component that has been rendered
NextDownload ==
  \/ CallDownloadCanvas
  \/ TempImageOnload
  \/ DownloadTimeout
  \/ JsPdfImported

SpecDownload == InitRendered /\ [][NextDownload]_vars

\* the image list hook of the collage builder
NextImages ==
  \/ CallUploadImages
  \/ UploadImagesResolves
  \/ CallFetchImages
  \/ FetchImagesListed
  \/ FetchImagesResolves
  \/ CallClearAllImages
  \/ ClearAllImagesResolves
  \/ Render

SpecImages == InitResumed /\ [][NextImages]_vars

\* the hexagon layout on its own
NextHexagon == CallCalculateHexagonLayout

SpecHexagon == Init /\ [][NextHexagon]_vars

\* the special grid layout on its own
NextSpecialGrid == CallCalculateSpecialGridLayout

SpecSpecialGrid == Init /\ [][NextSpecialGrid]_vars

\* the upload queue of the collage builder
NextQueue ==
  \/ CallAddFiles
  \/ CallRemoveImage
  \/ CallReplaceImage
  \/ CallUpload
  \/ UploadResolves
  \/ (inflight = <<>> /\ CallFetchImages)
  \/ FetchImagesListed
  \/ FetchImagesResolves
  \/ (inflight = <<>> /\ CallClearAllImages)
  \/ ClearAllImagesResolves
  \/ Render

SpecQueue == InitQueue /\ [][NextQueue]_vars

(* ------------------------------------------------------------------ *)
(* Properties                                                          *)
(* ------------------------------------------------------------------ *)
\* a calculateGridLayout call has returned (directly or inside the renderer)
LaidOut == pc \in {"calculateGridLayout", "drawImagesToCanvas"} /\ outcome = "returned"

AllRects(lay) == <<lay.main>> \o lay.side

\* area of the axis-aligned intersection of two rectangles
IntersectionArea(a, b) ==
  LET ox == Min2(a.x + a.w, b.x + b.w) - Max2(a.x, b.x)
      oy == Min2(a.y + a.h, b.y + b.h) - Max2(a.y, b.y)
  IN  IF ox > 0 /\ oy > 0 THEN ox * oy ELSE 0

InsidePage(rc, W, H) ==
  rc.x >= 0 /\ rc.y >= 0 /\ rc.x + rc.w <= W /\ rc.y + rc.h <= H

\* the program's page with mainPhotoIndex 0 and c photos
A4Request(c) == Request(CANVAS_WIDTH, CANVAS_HEIGHT, PADDING, c, 0)

\* C1 (as claimed): every valid request with 1..200 photos gets exactly
\* imagesCount - 1 side rectangles.
C1_CountInvariant ==
  (LaidOut /\ ValidRequest(req) /\ req.imagesCount \in 1..200)
    => Len(layout.side) = req.imagesCount - 1

\* C2: in every returned layout of a valid request no two of the rectangles
\* (main and sides) have an intersection of positive area.
C2_NoOverlap ==
  (LaidOut /\ ValidRequest(req))
    => LET rs == AllRects(layout)
       IN  \A i, j \in 1..Len(rs) :
             i < j => IntersectionArea(rs[i], rs[j]) = 0

C2_Witness ==
  /\ LaidOut /\ ValidRequest(req)
  /\ req.imagesCount >= 9
  /\ Len(layout.side) = req.imagesCount - 1
  /\ layout.main.w > 0

\* C3: every rectangle of a returned layout of a valid request lies inside
\* the page.
C3_InsidePage ==
  (LaidOut /\ ValidRequest(req))
    => LET rs == AllRects(layout)
       IN  \A i \in 1..Len(rs) :
             InsidePage(rs[i], req.canvasWidth, req.canvasHeight)

C3_Witness ==
  /\ LaidOut /\ ValidRequest(req)
  /\ req.imagesCount >= 9
  /\ Len(layout.side) = req.imagesCount - 1
  /\ req.canvasWidth < CANVAS_WIDTH
  /\ \E i \in 1..Len(layout.side) :
       layout.side[i].x + layout.side[i].w > layout.main.x + layout.main.w

\* C4: all side rectangles of a returned layout have one width and one
\* height, equal to each other, and the main rectangle is a square.
C4_UniformSquares ==
  LaidOut
    => /\ layout.main.w = layout.main.h
       /\ \A i \in 1..Len(layout.side) :
            /\ layout.side[i].w = layout.side[i].h
            /\ layout.side[i].w = layout.side[1].w

C4_Witness ==
  /\ LaidOut
  /\ Len(layout.side) >= 8
  /\ layout.main.w > layout.side[1].w
  /\ req.canvasWidth # req.canvasHeight

\* C5 (as claimed): scenario A returns 8 side rectangles, two on each edge,
\* and every adjacent pair (main to side, side to side on one edge, outermost
\* photo to page border) is exactly 5 px apart.
C5_ScenarioA ==
  (pc = "calculateGridLayout" /\ req = A4Request(9))
    => /\ Len(layout.side) = 8
       /\ LET m == layout.main
              s == layout.side
              g == 5
          IN  \* two per edge
              /\ \A i \in {1, 2} : s[i].y + s[i].h <= m.y
              /\ \A i \in {3, 4} : s[i].y >= m.y + m.h
              /\ \A i \in {5, 6} : s[i].x + s[i].w <= m.x
              /\ \A i \in {7, 8} : s[i].x >= m.x + m.w
              \* main to each neighbouring side photo
              /\ \A i \in {1, 2} : m.y - (s[i].y + s[i].h) = g
              /\ \A i \in {3, 4} : s[i].y - (m.y + m.h) = g
              /\ \A i \in {5, 6} : m.x - (s[i].x + s[i].w) = g
              /\ \A i \in {7, 8} : s[i].x - (m.x + m.w) = g
              \* side to side on one edge
              /\ s[2].x - (s[1].x + s[1].w) = g
              /\ s[4].x - (s[3].x + s[3].w) = g
              /\ s[6].y - (s[5].y + s[5].h) = g
              /\ s[8].y - (s[7].y + s[7].h) = g
              \* outermost photo to page border
              /\ \A i \in {1, 2} : s[i].y = g
              /\ \A i \in {3, 4} : req.canvasHeight - (s[i].y + s[i].h) = g
              /\ \A i \in {5, 6} : s[i].x = g
              /\ \A i \in {7, 8} : req.canvasWidth - (s[i].x + s[i].w) = g

\* the base + remainder policy: every edge gets floor(n/4) or one more, the
\* extras go to top, then bottom, then left, then right, and the counts sum to n
MatchesPolicy(d) ==
  LET base == d.n \div 4
  IN  /\ {d.top, d.bottom, d.left, d.right} \subseteq {base, base + 1}
      /\ d.top >= d.bottom /\ d.bottom >= d.left /\ d.left >= d.right
      /\ d.right = base
      /\ d.top + d.bottom + d.left + d.right = d.n
      /\ (d.n % 4 = 0 =>
            d.top = d.n \div 4 /\ d.bottom = d.n \div 4
            /\ d.left = d.n \div 4 /\ d.right = d.n \div 4)
      /\ (d.n = 9 => <<d.top, d.bottom, d.left, d.right>> = <<3, 2, 2, 2>>)

DistributionDone ==
  pc \in {"getDivisions", "calculateSidePhotoDistribution", "tryDistributeSidePhotos"}

\* C6: for n in 0..12 each of the three distribution helpers returns the edge
\* counts of the base + remainder policy.
C6_DistributionPolicy ==
  (DistributionDone /\ divisions.n \in 0..12) => MatchesPolicy(divisions)

C6_Witness ==
  /\ pc = "tryDistributeSidePhotos"
  /\ divisions.n = 11
  /\ divisions.left = 3 /\ divisions.right = 2

\* the i-th side photo of the caller's order (main removed), as an image id
SidePhotoId(r, i) == IF i - 1 < r.mainPhotoIndex THEN i - 1 ELSE i

\* C7: the side array is ordered top row (left to right), bottom row (left to
\* right), left column (top to bottom), right column (top to bottom), and the
\* renderer draws the i-th side photo of the caller's order into side[i].
C7_OrderAndCorrespondence ==
  (pc = "drawImagesToCanvas" /\ outcome = "returned" /\ ValidRequest(req)
   /\ Len(layout.side) > 0)
    => LET s  == layout.side
           m  == layout.main
           d  == getDivisions(req.imagesCount - 1)
           t0 == 0
           b0 == d.top
           l0 == d.top + d.bottom
           r0 == d.top + d.bottom + d.left
       IN  /\ Len(s) = d.n
           /\ \A i \in (t0 + 1)..b0 :
                /\ s[i].y + s[i].h <= m.y
                /\ (i > t0 + 1 => s[i].x > s[i - 1].x /\ s[i].y = s[i - 1].y)
           /\ \A i \in (b0 + 1)..l0 :
                /\ s[i].y >= m.y + m.h
                /\ (i > b0 + 1 => s[i].x > s[i - 1].x /\ s[i].y = s[i - 1].y)
           /\ \A i \in (l0 + 1)..r0 :
                /\ s[i].x + s[i].w <= m.x
                /\ (i > l0 + 1 => s[i].y > s[i - 1].y /\ s[i].x = s[i - 1].x)
           /\ \A i \in (r0 + 1)..Len(s) :
                /\ s[i].x >= m.x + m.w
                /\ (i > r0 + 1 => s[i].y > s[i - 1].y /\ s[i].x = s[i - 1].x)
           /\ Len(drawn) = Len(s) + 1
           /\ \A i \in 1..Len(s) :
                drawn[i] = DrawCall(SidePhotoId(req, i), s[i])
           /\ drawn[Len(s) + 1] = DrawCall(req.mainPhotoIndex, m)

C7_Witness ==
  /\ pc = "drawImagesToCanvas" /\ outcome = "returned"
  /\ req.imagesCount = 12
  /\ req.mainPhotoIndex = 1
  /\ Len(layout.side) = 11
  /\ Len(drawn) = 12
  /\ drawn[1].img = 0 /\ drawn[2].img = 2

\* C8 (as claimed): in either version of calculateGridLayout, one photo gives
\* an empty side array and a main square of size min(W, H) - 2 * gap with
\* equal free space left/right and top/bottom.
C8_SingleCentredExactly ==
  (/\ pc \in {"calculateGridLayout", "calculateGridLayoutFrame", "drawImagesToCanvas"}
   /\ outcome = "returned" /\ ValidRequest(req) /\ req.imagesCount = 1)
    => /\ layout.side = <<>>
       /\ layout.main.w = Min2(req.canvasWidth, req.canvasHeight) - 2 * req.padding
       /\ layout.main.h = layout.main.w
       /\ layout.main.x = req.canvasWidth - (layout.main.x + layout.main.w)
       /\ layout.main.y = req.canvasHeight - (layout.main.y + layout.main.h)

\* C8, the search-based version alone: the square has that size, and its
\* free space left/right and top/bottom is equal or, when it is odd, one
\* pixel larger on the left (top).
C8_SearchVersionRounded ==
  (LaidOut /\ ValidRequest(req) /\ req.imagesCount = 1)
    => /\ layout.side = <<>>
       /\ layout.main.w = Min2(req.canvasWidth, req.canvasHeight) - 2 * req.padding
       /\ layout.main.h = layout.main.w
       /\ layout.main.x - (req.canvasWidth - (layout.main.x + layout.main.w)) \in {0, 1}
       /\ layout.main.y - (req.canvasHeight - (layout.main.y + layout.main.h)) \in {0, 1}

\* C8, the frame version alone: the main photo of a single-photo request is
\* half the page wide whatever the gap
C8_FrameVersionHalfWidth ==
  (pc = "calculateGridLayoutFrame" /\ outcome = "returned"
   /\ ValidRequest(req) /\ req.imagesCount = 1)
    => /\ layout.side = <<>>
       /\ layout.main.w = Round2(req.canvasWidth)
       /\ layout.main.h = Min2(layout.main.w, req.canvasHeight - 4 * req.padding)

\* the request leaves the search no accepted side size: every s of the loop
\* gives a main size below minMain
NoFeasibleSize(r) ==
  /\ r.imagesCount >= 2
  /\ LET nb == nBySide(r.imagesCount - 1)
     IN  \A s \in 1..maxSideSize(r.canvasWidth, r.canvasHeight, r.padding, nb) :
           Skipped(r.canvasWidth, r.canvasHeight, r.padding, nb, s)

\* the request makes the frame version clamp its side size to 15 px
ClampedSize(r) ==
  /\ r.imagesCount - 1 > ClampSideCount
  /\ LET mainW == Round2(r.canvasWidth)
         mainH == Min2(mainW, r.canvasHeight - 4 * r.padding)
     IN  FrameBaseSize(mainW, mainH, r.padding, FrameCounts(r.imagesCount - 1))
           < MinFrameSide

\* the result carries degraded = true and a non-empty warnings list
MarkedDegraded(lay) ==
  /\ "degraded" \in DOMAIN lay
  /\ "warnings" \in DOMAIN lay
  /\ lay.degraded = TRUE
  /\ Len(lay.warnings) > 0

\* C9 (as claimed): a valid request that no size pair satisfies still gets a
\* result marked degraded with warnings, holding imagesCount - 1 side
\* rectangles that do not overlap, lie inside the page and are uniform squares.
C9_DegradedResult ==
  (/\ ValidRequest(req)
   /\ \/ pc = "calculateGridLayout" /\ NoFeasibleSize(req)
      \/ pc = "calculateGridLayoutFrame" /\ ClampedSize(req))
    => /\ outcome = "returned"
       /\ Len(layout.side) = req.imagesCount - 1
       /\ LET rs == AllRects(layout)
          IN  /\ \A i, j \in 1..Len(rs) :
                   i < j => IntersectionArea(rs[i], rs[j]) = 0
              /\ \A i \in 1..Len(rs) :
                   InsidePage(rs[i], req.canvasWidth, req.canvasHeight)
       /\ \A i \in 1..Len(layout.side) :
            /\ layout.side[i].w = layout.side[i].h
            /\ layout.side[i].w = layout.side[1].w
       /\ MarkedDegraded(layout)

\* C10 (as claimed): a request that breaks the LayoutRequest invariant is
\* rejected and no layout is returned.
C10_InvalidRejected ==
  (pc = "calculateGridLayout" /\ ~ValidRequest(req)) => outcome = "rejected"

\* C11: a returned search-based layout with at least one side photo has a
\* main size m and side size s with nH * s + m + (nH + 2) * gap <= pageWidth
\* and nV * s + m + (nV + 2) * gap <= pageHeight, nH and nV being the photo
\* counts on the left + right and on the top + bottom edges.
C11_SizesFitPage ==
  (LaidOut /\ Len(layout.side) > 0)
    => LET nb == nBySide(req.imagesCount - 1)
           nH == nb.lft + nb.rgt
           nV == nb.top + nb.btm
           m  == layout.main.w
           s  == layout.side[1].w
       IN  /\ nH * s + m + (nH + 2) * req.padding <= req.canvasWidth
           /\ nV * s + m + (nV + 2) * req.padding <= req.canvasHeight

C11_Witness ==
  /\ LaidOut /\ ValidRequest(req)
  /\ Len(layout.side) >= 5
  /\ LET nb == nBySide(req.imagesCount - 1)
         nH == nb.lft + nb.rgt
         nV == nb.top + nb.btm
         m  == layout.main.w
         s  == layout.side[1].w
     IN  /\ nH * s + m + (nH + 2) * req.padding < req.canvasWidth
         /\ nV * s + m + (nV + 2) * req.padding = req.canvasHeight

\* edge counts of a returned layout, in the order of the side array
RowIndices(nb)  == 1..(nb.top + nb.btm)
ColIndices(nb)  == (nb.top + nb.btm + 1)..(nb.top + nb.btm + nb.lft + nb.rgt)

\* C19 (as claimed): each rectangle of the top and bottom rows lies inside the
\* main photo's horizontal span and each rectangle of the left and right
\* columns inside its vertical span.
C19_SidesWithinMainSpan ==
  (LaidOut /\ ValidRequest(req) /\ Len(layout.side) > 0)
    => LET nb == nBySide(req.imagesCount - 1)
           m  == layout.main
           s  == layout.side
       IN  /\ \A i \in RowIndices(nb) :
                s[i].x >= m.x /\ s[i].x + s[i].w <= m.x + m.w
           /\ \A i \in ColIndices(nb) :
                s[i].y >= m.y /\ s[i].y + s[i].h <= m.y + m.h

(* ------------------------------------------------------------------ *)
(* Main-fraction search: properties                                    *)
(* ------------------------------------------------------------------ *)
\* the renderer of the main-fraction search version has drawn a collage
FractionDrawn == pc = "drawImagesToCanvasLayoutConfig" /\ outcome = "returned"

\* the candidate of step k for the request and layoutConfig of the last call
StepCandidate(k) ==
  Candidate(req.canvasWidth, req.canvasHeight, req.padding, divisions, k)

\* the steps whose candidate fits the page (with the loop's 2 px tolerance),
\* meets the loop's size floors and the fill target; step MainFracSteps is
\* the 30% end of the range
AdequateSteps ==
  {k \in 0..MainFracSteps :
     Adequate(req.canvasWidth, req.canvasHeight, StepCandidate(k))}

\* extent of the configuration in use, as the numerator of its fill ratio
UsedFill ==
  TotalW(bestConfig.gap, divisions, bestConfig.side, bestConfig.main)
    * TotalH(bestConfig.gap, divisions, bestConfig.side, bestConfig.main)

\* C12: when the main-fraction search accepts a candidate, the configuration
\* used for drawing is one of the adequate candidates and no adequate
\* candidate of the range 60% .. 30% has a strictly higher fill ratio.
C12_BestCandidateUsed ==
  (FractionDrawn /\ AdequateSteps \cap (0..(MainFracSteps - 1)) # {})
    => /\ \E k \in AdequateSteps :
            /\ StepCandidate(k).main = bestConfig.main
            /\ StepCandidate(k).side = bestConfig.side
       /\ \A k \in AdequateSteps : StepCandidate(k).fill <= UsedFill

C12_Witness ==
  /\ FractionDrawn
  /\ 0 \notin AdequateSteps
  /\ \E j, k \in AdequateSteps :
       /\ StepCandidate(j).fill < StepCandidate(k).fill
       /\ StepCandidate(k).main = bestConfig.main
  /\ bestConfig.side >= 30

\* C20 (as claimed): every configuration the main-fraction search version
\* draws with, accepted by the loop or taken from the fallback, has a side
\* cell of at least 30 px and a main size of at least 60 px.
C20_SizeFloors ==
  FractionDrawn => (bestConfig.side >= 30 /\ bestConfig.main >= 60)

\* C18 (as claimed): in the binary-search version the edge counts sum to
\* imagesCount - 1 for every imagesCount >= 2, and that many side rectangles
\* are returned.
C18_BinaryCountsSum ==
  (pc = "calculateGridLayoutBinary" /\ req.imagesCount >= 2)
    => LET nb == BinaryCounts(req.imagesCount - 1)
       IN  /\ nb.top + nb.btm + nb.lft + nb.rgt = req.imagesCount - 1
           /\ Len(layout.side) = req.imagesCount - 1

(* ------------------------------------------------------------------ *)
(* Search loops: termination and iteration bounds                      *)
(* ------------------------------------------------------------------ *)
\* the most iterations each loop may run, from the page size alone: the
\* cell-size search starts at no more than min(W, H, 300), the main-fraction
\* search tries the fractions 0.60 .. 0.31, the binary search halves 1..min(W, H)
StepsBounded ==
  LET shorter == Min2(loop.r.canvasWidth, loop.r.canvasHeight)
  IN  /\ loop.kind = "cellSize" => loop.steps <= Max2(1, Min2(shorter, MaxSideCap))
      /\ loop.kind = "mainFraction" => loop.steps <= 30
      /\ loop.kind = "binary" => (loop.steps >= 1 => 2 ^ (loop.steps - 1) <= shorter)

\* at the end the step-by-step loops hold what the layout functions compute
LoopResultAgrees ==
  (loop.kind # "none" /\ loop.done)
    => LET r == loop.r
       IN  /\ loop.kind = "cellSize" =>
                calculateGridLayout(r) =
                  (IF loop.s >= 1
                   THEN PlaceLayout(r.canvasWidth, r.canvasHeight, r.padding, loop.nb,
                          loop.s, MainSize(r.canvasWidth, r.canvasHeight, r.padding,
                                           loop.nb, loop.s))
                   ELSE ZeroLayout)
           /\ loop.kind = "mainFraction" =>
                loop.best = MainFracLoop(r.canvasWidth, r.canvasHeight, r.padding,
                                         loop.d, 0, ZeroConfig, 0)
           /\ loop.kind = "binary" =>
                loop.st.best = computeSideSize(r.canvasWidth, r.canvasHeight,
                                               r.padding, loop.nb, loop.mainW)

\* C13: every search loop of a valid request ends, and the number of its
\* iterations stays within a bound given by the page size alone, whatever the
\* photo count: 30 main-size steps, at most min(W, H, 300) cell sizes, at
\* most log2(min(W, H)) + 1 halvings.
C13_SearchTerminates ==
  /\ [](pc = "searching" => StepsBounded)
  /\ (pc = "searching") ~> (loop.done)

C13_Witness ==
  /\ loop.kind = "binary"
  /\ loop.done
  /\ loop.r.imagesCount = BigCount
  /\ loop.r.canvasWidth = CANVAS_WIDTH
  /\ loop.steps >= 9

(* ------------------------------------------------------------------ *)
(* Hexagon layout: properties                                          *)
(* ------------------------------------------------------------------ *)
\* positions of the rings 1 .. R together: 6 + 12 + ... + 6R
RingCapacity(R) == 3 * R * (R + 1)

\* the ring count the returned layout was sized for
RingsUsed == (hexLayout.den \div 200 - 1) \div 3

\* C15: for 1 <= n <= 60 side photos the hexagon layout is sized for the
\* smallest ring count R in 1..4 whose rings hold at least n positions and
\* returns exactly n side positions; for every n the ring count is at most 4
\* and at most 60 side positions are returned.
C15_SmallestRingCount ==
  (pc = "calculateHexagonLayout" /\ req.imagesCount >= 2)
    => LET n == req.imagesCount - 1
       IN  /\ RingsUsed \in 1..4
           /\ Len(hexLayout.sideHexagons) <= 60
           /\ n <= 60 =>
                /\ RingCapacity(RingsUsed) >= n
                /\ RingCapacity(RingsUsed - 1) < n
                /\ Len(hexLayout.sideHexagons) = n

C15_Witness ==
  /\ pc = "calculateHexagonLayout"
  /\ req.imagesCount - 1 = 37
  /\ RingsUsed = 4
  /\ Len(hexLayout.sideHexagons) = 37
  /\ \E i, j \in 1..37 :
       hexLayout.sideHexagons[i].x < hexLayout.centerHexagon.x
       /\ hexLayout.sideHexagons[j].y > hexLayout.centerHexagon.y

\* C17 (as claimed): the special grid layout returns exactly 47 side cells,
\* one for each side photo of a 48-photo collage, and none of them overlaps
\* the main rectangle.
C17_SpecialGridServes48 ==
  pc = "calculateSpecialGridLayout"
    => /\ Len(layout.side) = 47
       /\ \A i \in 1..Len(layout.side) :
            IntersectionArea(layout.side[i], layout.main) = 0

\* what the code returns: the 33 cells of the 7x7 grid outside the 4x4 block
SpecialGridCellCount ==
  pc = "calculateSpecialGridLayout"
    => Len(layout.side) = GRID_SIZE * GRID_SIZE - MAIN_SIZE * MAIN_SIZE

\* C16 (as claimed): queued previews plus already uploaded images never
\* exceed maxImages, and an addFiles call that would exceed the limit leaves
\* the queue as it was.
C16_QueueWithinLimit ==
  /\ Len(queue) + Cardinality(uploadedImageNames) <= MaxImages
  /\ ~addedOverLimit

\* shape of the upload queue state: ids are unique, and the uploading ref is
\* set exactly while an upload() call awaits a storage upload
QueueShape ==
  /\ \A i, j \in 1..Len(queue) : queue[i].id = queue[j].id => i = j
  /\ \A i \in 1..Len(queue) :
       /\ queue[i].id \in 1..(nextId - 1)
       /\ queue[i].name \in FileNames
       /\ queue[i].status \in {"pending", "uploading", "uploaded", "error"}
  /\ uploading = (runs # <<>>)
  /\ uploadedImageNames \subseteq FileNames
  /\ storage \subseteq FileNames
  /\ nextId \in 1..(MaxIds + 1)

\* the steps of the loop whose candidate fits the page (with the loop's 2 px
\* tolerance) and meets the loop's size floors, whatever its fill ratio
FittingSteps ==
  {k \in 0..(MainFracSteps - 1) :
     LET c == StepCandidate(k)
     IN  /\ c.hasCells
         /\ c.totalW <= req.canvasWidth + 2
         /\ c.totalH <= req.canvasHeight + 2
         /\ c.side >= 20
         /\ c.main >= 60}

\* C21 (as claimed): when no candidate of the main-fraction search reaches
\* the fill target of 0.90, the configuration used is the fitting candidate
\* with the highest fill ratio, not a fixed default.
C21_RelaxedBestCandidate ==
  (/\ FractionDrawn
   /\ AdequateSteps \cap (0..(MainFracSteps - 1)) = {}
   /\ FittingSteps # {})
    => \E k \in FittingSteps :
         /\ StepCandidate(k).main = bestConfig.main
         /\ StepCandidate(k).side = bestConfig.side
         /\ \A j \in FittingSteps : StepCandidate(j).fill <= StepCandidate(k).fill

(* ------------------------------------------------------------------ *)
(* Ring positions: properties                                          *)
(* ------------------------------------------------------------------ *)
\* generateRingPositions has returned
RingReturned == pc = "generateRingPositions" /\ loop.done


\* distance of an axial coordinate from the centre, in cells
HexDistance(c) == (Abs(c.q) + Abs(c.r) + Abs(c.q + c.r)) \div 2

\* Sign of the turn from cell a to cell b as seen from the centre on the
\* canvas, where x = q * hexWidth grows to the right and
\* y = (r + q / 2) * vertSpacing grows downwards: the cross product of the
\* two pixel offsets is a positive multiple of a.q * b.r - b.q * a.r, which
\* is positive for a clockwise turn and negative for a counter-clockwise one.
Turn(a, b) == a.q * b.r - b.q * a.r

\* the cell after position i of the returned ring, cyclically
NextOnRing(i) == loop.results[(i % Len(loop.results)) + 1]

\* the ring is complete: 6k pairwise distinct cells at distance k, the
\* first one the North-East cell
RingComplete ==
  /\ Len(loop.results) = 6 * loop.ring
  /\ \A i, j \in 1..Len(loop.results) : loop.results[i] = loop.results[j] => i = j
  /\ \A i \in 1..Len(loop.results) : HexDistance(loop.results[i]) = loop.ring
  /\ loop.results[1] = HexCoord(loop.ring, -loop.ring)

\* the step-by-step walk returns what generateRingPositions computes
RingWalkAgrees == RingReturned => loop.results = generateRingPositions(loop.ring)

\* C22 (as claimed): generateRingPositions(k) enumerates the 6k cells of ring
\* k exactly once each, all at hex distance k, starting at the North-East
\* cell (q = k, r = -k) and proceeding clockwise.
C22_RingClockwise ==
  RingReturned
    => /\ RingComplete
       /\ \A i \in 1..Len(loop.results) : Turn(loop.results[i], NextOnRing(i)) > 0

\* C22 (amended): generateRingPositions(k) enumerates the 6k cells of ring k
\* exactly once each, all at hex distance k, starting at the North-East cell
\* (q = k, r = -k) and proceeding counter-clockwise on the canvas: North-East,
\* North, North-West, South-West, South, South-East.
C22_RingCounterClockwise ==
  RingReturned
    => /\ RingComplete
       /\ \A i \in 1..Len(loop.results) : Turn(loop.results[i], NextOnRing(i)) < 0

C22_Witness ==
  /\ RingReturned
  /\ loop.ring = 4
  /\ Len(loop.results) = 24
  /\ loop.results[2] = HexCoord(3, -4)
  /\ loop.results[24] = HexCoord(4, -3)

(* ------------------------------------------------------------------ *)
(* Canvas component: properties                                        *)
(* ------------------------------------------------------------------ *)
\* C23 (as claimed): downloadCanvas serialises the temporary canvas only
\* after the onload draw of every image started by its drawImagesToCanvas
\* call has run, so the exported file contains every photo.
C23_ExportHasEveryPhoto ==
  \A n \in 1..Len(download) :
    download[n].state = "done" => download[n].calls \subseteq download[n].exported

\* C29 (as claimed): after the canvas is cleared and redrawn for new images
\* or a new mainPhotoId, no callback of an earlier drawImagesToCanvas call
\* paints onto it: the canvas shows only rectangles of the latest layout.
C29_OnlyLatestLayout ==
  PendingOn(loads, ScreenCtx) = 0 => screen \subseteq CanvasLayout(props)

\* shape of the canvas state: only draw calls of some props are awaited or
\* shown, and each download has its temporary canvas
CanvasShape ==
  LET all == UNION {CanvasDrawsTable[p] : p \in AllCanvasProps}
  IN  /\ props \in AllCanvasProps
      /\ \A l \in BagToSet(loads) :
           l.ctx \in 0..Len(download) /\ l.call \in all
      /\ screen \subseteq all
      /\ Len(temp) = Len(download)
      /\ \A n \in 1..Len(download) :
           /\ download[n].state \in {"waiting", "importing", "done"}
           /\ download[n].format \in {"png", "pdf"}
           /\ temp[n] \subseteq download[n].calls
           /\ download[n].exported \subseteq temp[n]

(* ------------------------------------------------------------------ *)
(* Upload queue: properties                                            *)
(* ------------------------------------------------------------------ *)
\* ids of the entries in status "uploading"
UploadingIds(q) == {q[i].id : i \in {j \in 1..Len(q) : q[j].status = "uploading"}}

\* at most one run is past the guard, and the flag is set exactly while it is
OneRunAtMost ==
  /\ Len(runs) <= 1
  /\ uploading = (runs # <<>>)

\* a step taken while a run is in progress starts no run, sends no file of
\* another run and turns no entry to "uploading"
NoRunStartsWhileUploading ==
  uploading =>
    /\ Len(runs') <= Len(runs)
    /\ UploadingIds(queue') \subseteq UploadingIds(queue)

\* C26: at most one run of upload() is in progress at any time; while one is,
\* no step (a further upload() call included) starts a run or changes an
\* entry to "uploading", and the flag is false again once the run finished.
C26_SingleUploadRun ==
  /\ []OneRunAtMost
  /\ [][NoRunStartsWhileUploading]_vars

\* a run awaits a file while the last render holds a pending entry, which a
\* further upload() call would send were it not refused
C26_Witness ==
  /\ uploading
  /\ Len(runs) = 1
  /\ Len(runs[1].queue) = 1
  /\ stale = 0
  /\ PendingItems(rendered.queue) # <<>>

\* C27 (as claimed): once the run that marked them has finished, no entry is
\* left in status "uploading": each one became "uploaded" and left the queue
\* or became "error", also when it was added just before upload() was called.
C27_NoEntryLeftUploading ==
  ~uploading => UploadingIds(queue) = {}

\* C28 (as claimed): an entry is marked "uploaded" and removed only if the
\* file it holds at that moment is the file that was sent to storage; a
\* replaceImage during an upload run is not overridden by the run.
C28_UploadedIsFileSent == ~overridden

(* ------------------------------------------------------------------ *)
(* useCollageImages: properties                                        *)
(* ------------------------------------------------------------------ *)
\* shape of the hook's state
ImagesShape ==
  /\ loading \in BOOLEAN
  /\ Len(inflight) <= MaxCalls
  /\ \A n \in 1..Len(inflight) :
       /\ inflight[n].op \in {"uploadImages", "fetchImages", "createSignedUrl",
                              "clearAllImages"}
       /\ inflight[n].op = "createSignedUrl" =>
            /\ inflight[n].listed # {}
            /\ Cardinality(inflight[n].listed) <= ListLimit
       /\ inflight[n].op = "uploadImages" => inflight[n].todo # {}
  /\ Cardinality(uploadedImageNames) <= ListLimit

\* C24 (as claimed): after any sequence of uploadImages calls, overlapping
\* ones included, the session folder holds at most 100 images, and a call
\* with images.length + files.length > 100 issues no upload request and
\* leaves images and loading unchanged.
C24_FolderWithinLimit ==
  /\ Cardinality(storage) <= UploadLimit
  /\ (lastCall.op = "uploadImages" /\ lastCall.outcome = "rejected")
       => /\ lastCall.requests = 0
          /\ lastCall.imagesKept
          /\ lastCall.loadingKept

\* C25: clearAllImages leaves the images list as it is when the removal
\* reports an error and empties it when the removal succeeded; either way
\* loading is false when the call finishes, and a call with an empty list
\* sends no request and changes neither images nor loading.
C25_ClearAllOutcome ==
  lastCall.op = "clearAllImages"
    => /\ lastCall.outcome = "error" =>
            (lastCall.imagesKept /\ ~lastCall.loadingAfter)
       /\ lastCall.outcome = "removed" =>
            (lastCall.imagesEmpty /\ ~lastCall.loadingAfter)
       /\ lastCall.outcome = "skipped" =>
            /\ lastCall.requests = 0
            /\ lastCall.imagesKept
            /\ lastCall.loadingKept

\* a removal that reported an error has left a list of images in place
C25_Witness ==
  /\ lastCall.op = "clearAllImages"
  /\ lastCall.outcome = "error"
  /\ lastCall.imagesKept
  /\ Cardinality(uploadedImageNames) >= UploadLimit - 1
  /\ ~loading

====
